---------------------------- MODULE Spec2Model ----------------------------
(***************************************************************************)
(* A model of the Lime compiler pipeline: the lexer (lime_lexer.py), the   *)
(* token table (lime_token.py), the symbol environment (environment.py)    *)
(* and the code generator (compiler.py).                                   *)
(*                                                                         *)
(* Python values are modelled as follows.  A character is a one-character  *)
(* string; a source text is a sequence of characters.  None is the string  *)
(* "None", which is no character.  Token kinds are the member names of     *)
(* TokenType as the lexer and the parser refer to them.                    *)
(***************************************************************************)
EXTENDS Integers, Sequences, FiniteSets, TLC

VARIABLES
    lexer,      \* the Lexer object: source, position, read_position, line, current_char
    tokens,     \* the tokens returned so far by next_token, with the lexeme each was cut from
    lexExc,     \* the exception that escaped next_token, or "none"
    compiler,   \* the Compiler object
    stack,      \* the calls of Compiler.compile in progress, outermost first
    fs,         \* the files os.path.isfile and open see
    menu,       \* the statements the program being lowered is made of
    nstmts,     \* the number of statements lowered so far
    parser,     \* the Parser object
    main        \* the run of main.py: the statement it is at and the exit status

lexVars == <<lexer, tokens, lexExc>>

genVars == <<compiler, stack, fs, menu, nstmts>>

parseVars == <<parser>>

driverVars == <<main>>

vars == <<lexer, tokens, lexExc, compiler, stack, fs, menu, nstmts, parser, main>>

None == "None"

(***************************************************************************)
(* Bounds of the model.                                                    *)
(***************************************************************************)
MaxLen == 3         \* longest source text given to the lexer
MaxEofCalls == 1    \* calls of next_token made after EOF was returned
MaxWords == 2       \* words of a source given to the lexer word by word
MaxInfix == 2       \* statements of the body of main taken from the menu of infix expressions
MaxExpr == 5        \* characters of a source made of expression statements
MaxChunks == 3      \* pieces of program text a source given to the parser is made of
MaxStmts == 4       \* statements of the main program handed to Compiler.compile
MaxImports == 3     \* statements of a main program made of imports
MaxBody == 3        \* statements of the body of a function main that is lowered and run
MaxUnits == 2       \* pieces of program text a source given to main.py is made of
RecursionLimit == 3 \* nested imports the interpreter's recursion limit leaves room for

(***************************************************************************)
(* Characters.  "sup2" stands for U+00B2 (SUPERSCRIPT TWO), a character    *)
(* for which str.isdigit() and str.isalnum() are true and which is not in  *)
(* '0'..'9'.  "@" is a character no case of next_token matches.            *)
(***************************************************************************)
AsciiDigits == {"0", "1", "2", "3", "4", "5", "6", "7", "8", "9"}
AsciiLetters == {"a", "b", "c", "d", "e", "f", "g", "h", "i", "j", "k", "l", "m",
                 "n", "o", "p", "q", "r", "s", "t", "u", "v", "w", "x", "y", "z"}
Whitespace == {" ", "\t", "\n", "\r"}

LexAlphabet == {"0", "1", ".", "x", " ", "\n", "\"", "=", "!", "-", ">", "sup2", "@"}

RECURSIVE SeqsUpTo(_, _)
SeqsUpTo(S, n) ==
    IF n = 0 THEN {<<>>}
    ELSE LET shorter == SeqsUpTo(S, n - 1)
         IN  shorter \cup {Append(s, c) : s \in {t \in shorter : Len(t) = n - 1}, c \in S}

\* Lexer.__is_digit
is_digit(ch) == ch \in AsciiDigits

\* Lexer.__is_letter
is_letter(ch) == ch \in AsciiLetters \/ ch = "_"

\* str.isdigit(), as next_token uses it
str_isdigit(ch) == ch \in AsciiDigits \/ ch = "sup2"

\* str.isalnum(), as __read_identifier uses it
str_isalnum(ch) == ch \in AsciiDigits \/ ch \in AsciiLetters \/ ch = "sup2"

(***************************************************************************)
(* Literals.  A token's literal is a string (k = "str"), an int            *)
(* (k = "int", n the value), a float (k = "float", n the integral part and *)
(* s the fractional digits without trailing zeros) or None (k = "none").   *)
(***************************************************************************)
StrLit(s) == [k |-> "str", s |-> s, n |-> 0]
IntLit(n) == [k |-> "int", s |-> <<>>, n |-> n]
FloatLit(n, frac) == [k |-> "float", s |-> frac, n |-> n]
NoneLit == [k |-> "none", s |-> <<>>, n |-> 0]

DigitVal(ch) ==
    CASE ch = "0" -> 0 [] ch = "1" -> 1 [] ch = "2" -> 2 [] ch = "3" -> 3 [] ch = "4" -> 4
      [] ch = "5" -> 5 [] ch = "6" -> 6 [] ch = "7" -> 7 [] ch = "8" -> 8 [] ch = "9" -> 9

DigitChar(d) == <<"0", "1", "2", "3", "4", "5", "6", "7", "8", "9">>[d + 1]

\* int(s) for a non-empty run of ASCII digits
RECURSIVE DigitsToNat(_)
DigitsToNat(s) ==
    IF s = <<>> THEN 0
    ELSE 10 * DigitsToNat(SubSeq(s, 1, Len(s) - 1)) + DigitVal(s[Len(s)])

\* str(n) for an int n >= 0
RECURSIVE NatToDigits(_)
NatToDigits(n) ==
    IF n < 10 THEN <<DigitChar(n)>>
    ELSE Append(NatToDigits(n \div 10), DigitChar(n % 10))

RECURSIVE StripTrailingZeros(_)
StripTrailingZeros(s) ==
    IF s # <<>> /\ s[Len(s)] = "0" THEN StripTrailingZeros(SubSeq(s, 1, Len(s) - 1)) ELSE s

IndexOfDot(s) == CHOOSE i \in 1..Len(s) : s[i] = "."

\* float(s) for digits with exactly one '.', at least one digit in all
PyFloat(s) ==
    LET d == IndexOfDot(s)
    IN  FloatLit(DigitsToNat(SubSeq(s, 1, d - 1)), StripTrailingZeros(SubSeq(s, d + 1, Len(s))))

\* str(literal), the text Python prints for a token's literal
LiteralText(lit) ==
    CASE lit.k = "str" -> lit.s
      [] lit.k = "int" -> NatToDigits(lit.n)
      [] lit.k = "float" -> NatToDigits(lit.n) \o <<".">> \o (IF lit.s = <<>> THEN <<"0">> ELSE lit.s)
      [] lit.k = "none" -> <<"N", "o", "n", "e">>

(***************************************************************************)
(* lime_token.py                                                           *)
(***************************************************************************)
KEYWORDS ==
    {<< <<"l", "e", "t">>, "LET">>, << <<"f", "n">>, "FN">>,
     << <<"r", "e", "t", "u", "r", "n">>, "RETURN">>, << <<"i", "f">>, "IF">>,
     << <<"e", "l", "s", "e">>, "ELSE">>, << <<"t", "r", "u", "e">>, "TRUE">>,
     << <<"f", "a", "l", "s", "e">>, "FALSE">>}

ALT_KEYWORDS ==
    {<< <<"l", "i", "t">>, "LET">>, << <<"b", "e">>, "EQ">>, << <<"r", "n">>, "SEMICOLON">>,
     << <<"b", "r", "u", "h">>, "FN">>, << <<"p", "a", "u", "s", "e">>, "RETURN">>,
     << <<"s", "n", "e", "k">>, "ARROW">>, << <<"s", "u", "s">>, "IF">>,
     << <<"i", "m", "p", "o", "s", "t", "e", "r">>, "ELSE">>}

TYPE_KEYWORDS == {<<"i", "n", "t">>, <<"f", "l", "o", "a", "t">>}

\* dict.get: the value under key, or None
DictGet(dict, key) ==
    IF \E e \in dict : e[1] = key THEN (CHOOSE e \in dict : e[1] = key)[2] ELSE None

lookup_ident(ident) ==
    IF DictGet(KEYWORDS, ident) # None THEN DictGet(KEYWORDS, ident)
    ELSE IF DictGet(ALT_KEYWORDS, ident) # None THEN DictGet(ALT_KEYWORDS, ident)
    ELSE IF ident \in TYPE_KEYWORDS THEN "TYPE"
    ELSE "IDENT"

(***************************************************************************)
(* lime_lexer.py                                                           *)
(***************************************************************************)
\* Lexer.__read_char
read_char(l) ==
    [l EXCEPT !.current_char = IF l.read_position >= Len(l.source) THEN None
                               ELSE l.source[l.read_position + 1],
              !.position = l.read_position,
              !.read_position = l.read_position + 1]

\* Lexer.__init__
NewLexer(source) ==
    read_char([source |-> source, position |-> -1, read_position |-> 0, line |-> 1,
               current_char |-> None])

\* Lexer.__peek_char
peek_char(l) ==
    IF l.read_position >= Len(l.source) THEN None ELSE l.source[l.read_position + 1]

\* Lexer.__skip_whitespace
RECURSIVE skip_whitespace(_)
skip_whitespace(l) ==
    IF l.current_char \in Whitespace
    THEN skip_whitespace(read_char(IF l.current_char = "\n"
                                   THEN [l EXCEPT !.line = l.line + 1] ELSE l))
    ELSE l

\* Lexer.__new_token
new_token(l, tt, literal) ==
    [type |-> tt, literal |-> literal, line |-> l.line, position |-> l.position]

\* The result of a method of the lexer that returns a token: the lexer afterwards,
\* the token (NoToken when an exception escaped) and the exception ("none" if none).
NoToken == [type |-> "NoToken", literal |-> NoneLit, line |-> 0, position |-> 0]
Returned(l, tok) == [lx |-> l, tok |-> tok, exc |-> "none"]
Raised(l, e) == [lx |-> l, tok |-> NoToken, exc |-> e]

\* Lexer.__read_number_token, lines 65-68: the conversion of the digits read
NumberTokenOf(l, dot_count, output) ==
    IF dot_count = 0
    THEN IF output = <<>> THEN Raised(l, "ValueError")
         ELSE Returned(l, new_token(l, "INT", IntLit(DigitsToNat(output))))
    ELSE IF \A i \in 1..Len(output) : output[i] = "." THEN Raised(l, "ValueError")
         ELSE Returned(l, new_token(l, "FLOAT", PyFloat(output)))

\* Lexer.__read_number_token, lines 51-63: the while loop
RECURSIVE NumberLoop(_, _, _)
NumberLoop(l, dot_count, output) ==
    IF l.current_char = None THEN Raised(l, "TypeError")
    ELSE IF ~(is_digit(l.current_char) \/ l.current_char = ".")
    THEN NumberTokenOf(l, dot_count, output)
    ELSE LET dots == IF l.current_char = "." THEN dot_count + 1 ELSE dot_count
         IN  IF dots > 1
             THEN Returned(l, new_token(l, "ILLEGAL", StrLit(Append(output, l.current_char))))
             ELSE LET out == Append(output, l.source[l.position + 1])
                      l2 == read_char(l)
                  IN  IF l2.current_char = None THEN NumberTokenOf(l2, dots, out)
                      ELSE NumberLoop(l2, dots, out)

\* Lexer.__read_number_token
read_number_token(l) == NumberLoop(l, 0, <<>>)

\* Lexer.__read_identifier, the while loop
RECURSIVE IdentifierEnd(_)
IdentifierEnd(l) ==
    IF l.current_char # None /\ (is_letter(l.current_char) \/ str_isalnum(l.current_char))
    THEN IdentifierEnd(read_char(l))
    ELSE l

\* source[position0 : position1] with 0-based positions, as Python slices
Slice(source, from, to) == SubSeq(source, from + 1, IF to > Len(source) THEN Len(source) ELSE to)

\* Lexer.__read_identifier: the lexer afterwards and the lexeme
read_identifier(l) ==
    LET l2 == IdentifierEnd(l)
    IN  [lx |-> l2, literal |-> Slice(l.source, l.position, l2.position)]

\* Lexer.__read_string, the while loop
RECURSIVE StringEnd(_)
StringEnd(l) ==
    LET l2 == read_char(l)
    IN  IF l2.current_char = "\"" \/ l2.current_char = None THEN l2 ELSE StringEnd(l2)

\* Lexer.__read_string: the function ends after its loop and returns None
read_string(l) == [lx |-> StringEnd(l), literal |-> NoneLit]

\* TwoChar with the literal taken after the read: the second character alone.
TwoCharSecondOnly(l, second, tt2, tt1) ==
    IF peek_char(l) = second
    THEN LET l2 == read_char(l)
         IN  Returned(read_char(l2), new_token(l2, tt2, StrLit(<<l2.current_char>>)))
    ELSE Returned(read_char(l), new_token(l, tt1, StrLit(<<l.current_char>>)))

\* next_token, a case that tests the peek character for a two-character token
TwoChar(l, second, tt2, tt1) ==
    IF peek_char(l) = second
    THEN LET l2 == read_char(l)
         IN  Returned(read_char(l2), new_token(l2, tt2, StrLit(<<l.current_char, l2.current_char>>)))
    ELSE Returned(read_char(l), new_token(l, tt1, StrLit(<<l.current_char>>)))

\* next_token, a case of one character
OneChar(l, tt) == Returned(read_char(l), new_token(l, tt, StrLit(<<l.current_char>>)))

\* Lexer.next_token, after __skip_whitespace
MatchChar(l) ==
    LET ch == l.current_char
    IN  CASE ch = "+" -> OneChar(l, "PLUS")
          [] ch = "-" -> TwoChar(l, ">", "ARROW", "MINUS")
          [] ch = "*" -> OneChar(l, "ASTERISK")
          [] ch = "/" -> OneChar(l, "SLASH")
          [] ch = "^" -> OneChar(l, "POWER")
          [] ch = "%" -> OneChar(l, "MODULO")
          [] ch = "<" -> TwoChar(l, "=", "LT_EQ", "LT")
          [] ch = ">" -> TwoChar(l, "=", "GT_EQ", "GT")
          [] ch = "=" -> TwoChar(l, "=", "EQ_EQ", "EQ")
          [] ch = "!" -> TwoChar(l, "=", "NOT_EQ", "ILLEGAL")
          [] ch = ":" -> OneChar(l, "COLON")
          [] ch = "," -> OneChar(l, "COMMA")
          [] ch = "\"" -> LET r == read_string(l)
                          IN  Returned(read_char(r.lx), new_token(r.lx, "STRING", r.literal))
          [] ch = ";" -> OneChar(l, "SEMICOLON")
          [] ch = "(" -> OneChar(l, "LPAREN")
          [] ch = ")" -> OneChar(l, "RPAREN")
          [] ch = "{" -> OneChar(l, "LBRACE")
          [] ch = "}" -> OneChar(l, "RBRACE")
          [] ch = None -> Returned(read_char(l), new_token(l, "EOF", StrLit(<<>>)))
          [] OTHER ->
                IF is_letter(ch)
                THEN LET r == read_identifier(l)
                     IN  Returned(r.lx, new_token(r.lx, lookup_ident(r.literal), StrLit(r.literal)))
                ELSE IF str_isdigit(ch) THEN read_number_token(l)
                ELSE OneChar(l, "ILLEGAL")

\* Lexer.next_token
next_token(l) == MatchChar(skip_whitespace(l))

(***************************************************************************)
(* llvmlite, as far as compiler.py uses it.                                *)
(*                                                                         *)
(* An IR type is [base, ptr, len]: ptr counts the pointer levels above     *)
(* base, len > 0 makes it an array of len elements.  An IR value is [v, t, n, s, lit]: its kind, its type, the number of   *)
(* the instruction or argument, the name of the global or the opcode of    *)
(* the instruction, and a constant's literal.  NoneValue and NoneType      *)
(* stand for Python's None.                                                *)
(***************************************************************************)
Ty(base) == [base |-> base, ptr |-> 0, len |-> 0]
ArrayType(n) == [base |-> "i8", ptr |-> 0, len |-> n]
PointerTo(t) == [t EXCEPT !.ptr = @ + 1]
Pointee(t) == [t EXCEPT !.ptr = @ - 1]
NoneType == Ty("None")
IsPointerType(t) == t.ptr > 0
\* isinstance(t, ir.IntType), isinstance(t, ir.FloatType)
IsIntType(t) == t.ptr = 0 /\ t.len = 0 /\ t.base \in {"i1", "i8", "i32"}
IsFloatType(t) == t.ptr = 0 /\ t.len = 0 /\ t.base = "float"

NoneValue == [v |-> "None", t |-> NoneType, n |-> 0, s |-> "", lit |-> NoneLit]
Constant(t, lit) == [v |-> "const", t |-> t, n |-> 0, s |-> "", lit |-> lit]
InstrValue(t, id, op) == [v |-> "instr", t |-> t, n |-> id, s |-> op, lit |-> NoneLit]
FunctionValue(name) == [v |-> "func", t |-> PointerTo(Ty("fn")), n |-> 0, s |-> name, lit |-> NoneLit]
GlobalValue(t, name) == [v |-> "global", t |-> PointerTo(t), n |-> 0, s |-> name, lit |-> NoneLit]
ArgValue(t, fname, i) == [v |-> "arg", t |-> t, n |-> i, s |-> fname, lit |-> NoneLit]

\* Compiler.type_map (compiler.py lines 20-26); "KeyError" for any other name
TypeNames == {"int", "float", "bool", "str", "void"}
type_map(name) ==
    CASE name = "int" -> Ty("i32")
      [] name = "float" -> Ty("float")
      [] name = "bool" -> Ty("i1")
      [] name = "str" -> PointerTo(Ty("i8"))
      [] name = "void" -> Ty("void")

(***************************************************************************)
(* The state of a Compiler object is a record c.  c.exc is the exception   *)
(* that is propagating ("none" if none): once set, every later operation   *)
(* of the handler is skipped, as the code has no try around them.          *)
(* c.val and c.typ hold the pair the last expression visit returned.       *)
(* Environment and ir.Block objects live in the heaps c.envs and c.blocks  *)
(* and are referred to by their index; 0 is None.                          *)
(***************************************************************************)
Raise(c, e) == IF c.exc = "none" THEN [c EXCEPT !.exc = e] ELSE c
Ok(c) == c.exc = "none"
\* return value, Type: the pair a visit method returns
Return2(c, value, type) == IF ~Ok(c) THEN c ELSE [c EXCEPT !.val = value, !.typ = type, !.pair = TRUE]
\* a method that ends without a return statement returns None
ReturnNone(c) == IF ~Ok(c) THEN c ELSE [c EXCEPT !.val = NoneValue, !.typ = NoneType, !.pair = FALSE]
\* value, Type = ...: unpacking None raises TypeError
Unpack(c) == IF Ok(c) /\ ~c.pair THEN Raise(c, "TypeError") ELSE c
\* Statements in sequence: F is applied to the state v that the statement before
\* has left, unless an exception is propagating.  With binds without that test.
With(v, F(_)) == CHOOSE r \in {F(x) : x \in {v}} : TRUE
Then(v, F(_)) == CHOOSE r \in {IF Ok(x) THEN F(x) ELSE x : x \in {v}} : TRUE
Last(s) == s[Len(s)]
Front(s) == SubSeq(s, 1, Len(s) - 1)

\* The names an Environment may hold
Names == {"x", "y", "s", "i", "j", "a"}
FnNames == {"f", "g", "main"}
Builtins == {"printf", "true", "false"}
EnvNames == Names \cup FnNames \cup Builtins

NoBinding == [bound |-> FALSE, ptr |-> NoneValue, type |-> NoneType]
Binding(ptr, type) == [bound |-> TRUE, ptr |-> ptr, type |-> type]

\* Environment.__init__: a new Environment with no records; its index is Len(c.envs)
NewEnvironment(c, parent) ==
    [c EXCEPT !.envs = Append(@, [records |-> [n \in EnvNames |-> NoBinding], parent |-> parent])]

\* Environment.define
define(c, e, name, ptr, type) ==
    IF ~Ok(c) THEN c ELSE [c EXCEPT !.envs[e].records[name] = Binding(ptr, type)]

\* Environment.__resolve: the record found first on the parent chain, or NoBinding (None)
RECURSIVE resolve(_, _, _)
resolve(envs, e, name) ==
    IF envs[e].records[name].bound THEN envs[e].records[name]
    ELSE IF envs[e].parent # 0 THEN resolve(envs, envs[e].parent, name)
    ELSE NoBinding

\* Environment.lookup
lookup(c, name) == resolve(c.envs, c.env, name)

\* An instruction of a block
Instr(op, t, args, targets, id) ==
    [op |-> op, t |-> t, args |-> args, targets |-> targets, id |-> id]

\* IRBuilder._insert of a non-terminator; an IRBuilder() without a block has no
\* parent for the instruction and raises AttributeError.  The value is left in c.val.
Insert(c, op, t, args) ==
    IF ~Ok(c) THEN c
    ELSE IF c.builder = 0 THEN Raise(c, "AttributeError")
    ELSE [c EXCEPT !.blocks[c.builder].instrs = Append(@, Instr(op, t, args, <<>>, c.ninstr + 1)),
                   !.ninstr = @ + 1,
                   !.val = InstrValue(t, c.ninstr + 1, op),
                   !.typ = t]

\* IRBuilder._set_terminator: asserts that the block is not terminated yet
SetTerminator(c, op, args, targets) ==
    IF ~Ok(c) THEN c
    ELSE IF c.builder = 0 THEN Raise(c, "AttributeError")
    ELSE IF c.blocks[c.builder].terminated THEN Raise(c, "AssertionError")
    ELSE [c EXCEPT !.blocks[c.builder].instrs = Append(@, Instr(op, Ty("void"), args, targets, c.ninstr + 1)),
                   !.blocks[c.builder].terminated = TRUE,
                   !.ninstr = @ + 1]

\* IRBuilder.alloca
alloca(c, t) ==
    IF ~Ok(c) THEN c
    ELSE IF t = NoneType THEN Raise(c, "AttributeError")
    ELSE Insert(c, "alloca", PointerTo(t), <<>>)

\* IRBuilder.store: TypeError unless ptr is a pointer to value's type
store(c, value, ptr) ==
    IF ~Ok(c) THEN c
    ELSE IF ptr = NoneValue THEN Raise(c, "AttributeError")
    ELSE IF ~IsPointerType(ptr.t) THEN Raise(c, "TypeError")
    ELSE IF value = NoneValue THEN Raise(c, "AttributeError")
    ELSE IF Pointee(ptr.t) # value.t THEN Raise(c, "TypeError")
    ELSE [Insert(c, "store", Ty("void"), <<value, ptr>>) EXCEPT !.val = c.val, !.typ = c.typ]

\* IRBuilder.load: TypeError unless ptr is a pointer
load(c, ptr) ==
    IF ~Ok(c) THEN c
    ELSE IF ptr = NoneValue THEN Raise(c, "AttributeError")
    ELSE IF ~IsPointerType(ptr.t) THEN Raise(c, "TypeError")
    ELSE Insert(c, "load", Pointee(ptr.t), <<ptr>>)

\* IRBuilder.add, sub, mul, sdiv, srem, fadd, ...: ValueError unless both operands have one type
binop(c, op, lhs, rhs) ==
    IF ~Ok(c) THEN c
    ELSE IF lhs = NoneValue \/ rhs = NoneValue THEN Raise(c, "AttributeError")
    ELSE IF lhs.t # rhs.t THEN Raise(c, "ValueError")
    ELSE Insert(c, op, lhs.t, <<lhs, rhs>>)

\* IRBuilder.icmp_signed, fcmp_ordered: the predicate of the instruction for an operator
IcmpSigned ==
    [op \in {"<", "<=", ">", ">=", "==", "!="} |->
        CASE op = "<" -> "icmp slt" [] op = "<=" -> "icmp sle" [] op = ">" -> "icmp sgt"
          [] op = ">=" -> "icmp sge" [] op = "==" -> "icmp eq" [] op = "!=" -> "icmp ne"]
FcmpOrdered ==
    [op \in {"<", "<=", ">", ">=", "==", "!="} |->
        CASE op = "<" -> "fcmp olt" [] op = "<=" -> "fcmp ole" [] op = ">" -> "fcmp ogt"
          [] op = ">=" -> "fcmp oge" [] op = "==" -> "fcmp oeq" [] op = "!=" -> "fcmp one"]

\* IRBuilder.icmp_signed, fcmp_ordered: the result is an i1
compare(c, op, lhs, rhs) == Insert(c, op, Ty("i1"), <<lhs, rhs>>)

\* IRBuilder.sitofp
sitofp(c, value, t) ==
    IF ~Ok(c) THEN c
    ELSE IF value = NoneValue THEN Raise(c, "AttributeError")
    ELSE Insert(c, "sitofp", t, <<value>>)

\* IRBuilder.branch, cbranch, ret
branch(c, target) == SetTerminator(c, "br", <<>>, <<target>>)
cbranch(c, cond, truebr, falsebr) == SetTerminator(c, "cbr", <<cond>>, <<truebr, falsebr>>)
ret(c, value) == SetTerminator(c, "ret", <<value>>, <<>>)

\* IRBuilder.append_basic_block: a new block of the function the builder is in;
\* its index is Len(c.blocks) afterwards
append_basic_block(c, label) ==
    IF ~Ok(c) THEN c
    ELSE IF c.builder = 0 THEN Raise(c, "AttributeError")
    ELSE [c EXCEPT !.blocks = Append(@, [func |-> c.blocks[c.builder].func, label |-> label,
                                         instrs |-> <<>>, terminated |-> FALSE])]

\* IRBuilder.position_at_start / position_at_end of a block
position_at(c, b) == IF ~Ok(c) THEN c ELSE [c EXCEPT !.builder = b]

\* The globals of the ir.Module: ir.Function and ir.GlobalVariable register their
\* name in the module's scope, which raises DuplicatedNameError for a name in use
GlobalNames(c) == {c.module[i].name : i \in 1..Len(c.module)}
GlobalNamed(c, name) == c.module[CHOOSE i \in 1..Len(c.module) : c.module[i].name = name]

add_global(c, g) ==
    IF ~Ok(c) THEN c
    ELSE IF g.name \in GlobalNames(c) THEN Raise(c, "DuplicatedNameError")
    ELSE [c EXCEPT !.module = Append(@, g)]

\* ir.Function(module, FunctionType(ret, args), name)
Function(c, name, rettype, argtypes) ==
    add_global(c, [name |-> name, kind |-> "function", ret |-> rettype, args |-> argtypes,
                   var_arg |-> FALSE])

\* ir.Function.append_basic_block
function_append_basic_block(c, fname, label) ==
    IF ~Ok(c) THEN c
    ELSE [c EXCEPT !.blocks = Append(@, [func |-> fname, label |-> label,
                                         instrs |-> <<>>, terminated |-> FALSE])]

\* IRBuilder.call: TypeError unless the arguments fit the function's type
call(c, func, args) ==
    IF ~Ok(c) THEN c
    ELSE IF func.v # "func" THEN Raise(c, "AttributeError")
    ELSE LET fn == GlobalNamed(c, func.s)
         IN  IF \E i \in 1..Len(args) : args[i] = NoneValue THEN Raise(c, "AttributeError")
             ELSE IF Len(args) < Len(fn.args) \/ (Len(args) > Len(fn.args) /\ ~fn.var_arg)
             THEN Raise(c, "TypeError")
             ELSE IF \E i \in 1..Len(fn.args) : args[i].t # fn.args[i] THEN Raise(c, "TypeError")
             ELSE Insert(c, "call", fn.ret, <<func>> \o args)

(***************************************************************************)
(* The execution of the module by the JIT engine (main.py lines 121-142):  *)
(* the call of the function main.  A machine word is [def, n]; def is      *)
(* FALSE for a value this model does not compute (a float, a pointer to a  *)
(* string, the result of an external function) and for an undefined one.   *)
(* An activation of a function holds the block and the instruction it is   *)
(* at, the values of its instructions, its stack slots and its arguments.  *)
(***************************************************************************)
MaxSteps == 200     \* instructions executed by one run of the program

Word(n) == [def |-> TRUE, n |-> n]
NoWord == [def |-> FALSE, n |-> 0]

\* The value of an integer type: an i1 is 0 or 1; the i32 values of the programs
\* run here stay within the range of an i32
Wrap(t, n) == IF t.base = "i1" THEN n % 2 ELSE n

\* Signed division truncates towards zero
Quot(a, b) ==
    LET abs(x) == IF x < 0 THEN -x ELSE x
        q == abs(a) \div abs(b)
    IN  IF (a < 0) = (b < 0) THEN q ELSE -q

\* The first block of a function; a function with no block is a declaration
HasBody(c, fname) == \E b \in 1..Len(c.blocks) : c.blocks[b].func = fname
EntryBlock(c, fname) ==
    CHOOSE b \in 1..Len(c.blocks) :
        /\ c.blocks[b].func = fname
        /\ \A b2 \in 1..(b - 1) : c.blocks[b2].func # fname

Activation(c, fname, args) ==
    [b |-> EntryBlock(c, fname), i |-> 1, regs |-> [id \in 1..c.ninstr |-> NoWord],
     mem |-> [id \in 1..c.ninstr |-> NoWord], args |-> args]

\* The value of an operand
Operand(fr, v) ==
    CASE v.v = "const" -> IF v.lit.k = "int" THEN Word(v.lit.n) ELSE NoWord
      [] v.v = "instr" -> fr.regs[v.n]
      [] v.v = "arg" -> fr.args[v.n]
      [] OTHER -> NoWord

\* The value a pointer points to: a stack slot, or the global true or false
Loaded(fr, ptr) ==
    CASE ptr.v = "global" /\ ptr.t = PointerTo(Ty("i1")) -> Word(IF ptr.s = "true" THEN 1 ELSE 0)
      [] ptr.v = "instr" /\ fr.regs[ptr.n].def -> fr.mem[fr.regs[ptr.n].n]
      [] OTHER -> NoWord

\* The result of an integer instruction
Arith(op, t, a, b) ==
    IF ~a.def \/ ~b.def THEN NoWord
    ELSE CASE op = "add" -> Word(Wrap(t, a.n + b.n))
           [] op = "sub" -> Word(Wrap(t, a.n - b.n))
           [] op = "mul" -> Word(Wrap(t, a.n * b.n))
           [] op = "sdiv" -> IF b.n = 0 THEN NoWord ELSE Word(Wrap(t, Quot(a.n, b.n)))
           [] op = "srem" -> IF b.n = 0 THEN NoWord ELSE Word(Wrap(t, a.n - b.n * Quot(a.n, b.n)))
           [] op = "icmp slt" -> Word(IF a.n < b.n THEN 1 ELSE 0)
           [] op = "icmp sle" -> Word(IF a.n <= b.n THEN 1 ELSE 0)
           [] op = "icmp sgt" -> Word(IF a.n > b.n THEN 1 ELSE 0)
           [] op = "icmp sge" -> Word(IF a.n >= b.n THEN 1 ELSE 0)
           [] op = "icmp eq" -> Word(IF a.n = b.n THEN 1 ELSE 0)
           [] op = "icmp ne" -> Word(IF a.n # b.n THEN 1 ELSE 0)
           [] OTHER -> NoWord

IntegerInstrs ==
    {"add", "sub", "mul", "sdiv", "srem",
     "icmp slt", "icmp sle", "icmp sgt", "icmp sge", "icmp eq", "icmp ne"}

\* The run st = [frames, steps, outcome, result] after the instruction the
\* innermost activation is at
Finished(st, outcome, result) == [st EXCEPT !.outcome = outcome, !.result = result]
Assigned(st, id, w) ==
    [st EXCEPT !.frames[Len(st.frames)].regs[id] = w, !.frames[Len(st.frames)].i = @ + 1]

ExecuteInstr(c, st) ==
    LET fr == Last(st.frames)
        blk == c.blocks[fr.b]
    IN  IF fr.i > Len(blk.instrs) THEN Finished(st, "undefined", NoWord)
        ELSE LET ins == blk.instrs[fr.i]
             IN  CASE ins.op = "alloca" -> Assigned(st, ins.id, Word(ins.id))
                   [] ins.op = "store" ->
                        LET slot == Operand(fr, ins.args[2])
                        IN  IF ~slot.def THEN Finished(st, "undefined", NoWord)
                            ELSE [st EXCEPT !.frames[Len(st.frames)].mem[slot.n] =
                                                Operand(fr, ins.args[1]),
                                            !.frames[Len(st.frames)].i = @ + 1]
                   [] ins.op = "load" -> Assigned(st, ins.id, Loaded(fr, ins.args[1]))
                   [] ins.op \in IntegerInstrs ->
                        Assigned(st, ins.id, Arith(ins.op, ins.t, Operand(fr, ins.args[1]),
                                                   Operand(fr, ins.args[2])))
                   [] ins.op = "not" ->
                        LET a == Operand(fr, ins.args[1])
                        IN  Assigned(st, ins.id, IF a.def THEN Word(Wrap(ins.t, -a.n - 1)) ELSE NoWord)
                   [] ins.op = "br" ->
                        [st EXCEPT !.frames[Len(st.frames)].b = ins.targets[1],
                                   !.frames[Len(st.frames)].i = 1]
                   [] ins.op = "cbr" ->
                        LET cond == Operand(fr, ins.args[1])
                        IN  IF ~cond.def THEN Finished(st, "undefined", NoWord)
                            ELSE [st EXCEPT !.frames[Len(st.frames)].b =
                                                IF cond.n # 0 THEN ins.targets[1] ELSE ins.targets[2],
                                            !.frames[Len(st.frames)].i = 1]
                   [] ins.op = "ret" ->
                        LET w == Operand(fr, ins.args[1])
                        IN  IF Len(st.frames) = 1 THEN Finished(st, "returned", w)
                            ELSE LET caller == st.frames[Len(st.frames) - 1]
                                     site == c.blocks[caller.b].instrs[caller.i]
                                 IN  Assigned([st EXCEPT !.frames = Front(@)], site.id, w)
                   [] ins.op = "call" ->
                        LET fname == ins.args[1].s
                            args == [k \in 1..(Len(ins.args) - 1) |-> Operand(fr, ins.args[k + 1])]
                        IN  IF HasBody(c, fname)
                            THEN [st EXCEPT !.frames = Append(@, Activation(c, fname, args))]
                            ELSE Assigned(st, ins.id, NoWord)
                   [] OTHER -> Assigned(st, ins.id, NoWord)

\* The run to its end, or as far as MaxSteps instructions
RECURSIVE Execute(_, _, _)
Execute(c, v, n) ==
    CHOOSE r \in {IF st.outcome # "running" THEN st
                  ELSE IF n <= 1 THEN [ExecuteInstr(c, st) EXCEPT !.steps = @ + 1]
                  ELSE Execute(c, Execute(c, st, n \div 2), n - (n \div 2)) : st \in {v}} : TRUE

\* cfunc(): the function main called with no argument
RunMain(c) ==
    LET st == Execute(c, [frames |-> <<Activation(c, "main", <<>>)>>, steps |-> 0,
                          outcome |-> "running", result |-> NoWord], MaxSteps)
    IN  IF st.outcome = "running" THEN Finished(st, "unfinished", NoWord) ELSE st

(***************************************************************************)
(* The AST (lime_ast), with the field names compiler.py reads.             *)
(***************************************************************************)
IntegerLiteral(n) == [type |-> "IntegerLiteral", value |-> IntLit(n)]
FloatLiteral(n, frac) == [type |-> "FloatLiteral", value |-> FloatLit(n, frac)]
BooleanLiteral(b) == [type |-> "BooleanLiteral", value |-> b]
StringLiteral(lit) == [type |-> "StringLiteral", value |-> lit]
IdentifierLiteral(name) == [type |-> "IdentifierLiteral", value |-> name]
InfixExpression(left, op, right) ==
    [type |-> "InfixExpression", left_node |-> left, operator |-> op, right_node |-> right]
PrefixExpression(op, right) == [type |-> "PrefixExpression", operator |-> op, right_node |-> right]
PostfixExpression(left, op) == [type |-> "PostfixExpression", left_node |-> left, operator |-> op]
CallExpression(function, arguments) ==
    [type |-> "CallExpression", function |-> function, arguments |-> arguments]

(***************************************************************************)
(* compiler.py: expressions                                                *)
(***************************************************************************)
\* A compile error: the kind of message and the names the code puts into it
CompileError(kind, name, more) == [kind |-> kind, name |-> name, more |-> more]
AddError(c, e) == IF ~Ok(c) THEN c ELSE [c EXCEPT !.errors = Append(@, e)]

\* Compiler.__increment_counter
increment_counter(c) == IF ~Ok(c) THEN c ELSE [c EXCEPT !.counter = @ + 1]

\* Compiler.__convert_string
convert_string(c, string) ==
    LET text == IF string.k = "none" THEN <<>> ELSE string.s
        t == ArrayType(Len(text) + 1)
    IN  Then(increment_counter(c), LAMBDA c1 :
            Return2(add_global(c1, [name |-> <<"__str_", c1.counter>>, kind |-> "global",
                                    ret |-> t, args |-> <<>>, var_arg |-> FALSE]),
                    GlobalValue(t, <<"__str_", c1.counter>>), PointerTo(t)))

\* value = self.builder.<op>(...) followed by return value, Type
Emitted(c, type) == Return2(c, c.val, type)

IntOps == [op \in {"+", "-", "*", "/", "%"} |->
             CASE op = "+" -> "add" [] op = "-" -> "sub" [] op = "*" -> "mul"
               [] op = "/" -> "sdiv" [] op = "%" -> "srem"]
FloatOps == [op \in {"+", "-", "*", "/", "%"} |->
               CASE op = "+" -> "fadd" [] op = "-" -> "fsub" [] op = "*" -> "fmul"
                 [] op = "/" -> "fdiv" [] op = "%" -> "frem"]
Comparisons == {"<", "<=", ">", ">=", "==", "!="}

\* A lowering that compares floats as it compares integers
InfixOfSignedOnly(c, operator, left_value, left_type, right_value, right_type) ==
    IF IsIntType(left_type) /\ IsIntType(right_type)
    THEN IF operator \in DOMAIN IntOps
         THEN Emitted(binop(c, IntOps[operator], left_value, right_value), Ty("i32"))
         ELSE IF operator \in Comparisons
         THEN Emitted(compare(c, IcmpSigned[operator], left_value, right_value), Ty("i1"))
         ELSE Return2(c, NoneValue, Ty("i32"))
    ELSE IF IsFloatType(left_type) /\ IsFloatType(right_type)
    THEN IF operator \in DOMAIN FloatOps
         THEN Emitted(binop(c, FloatOps[operator], left_value, right_value), Ty("float"))
         ELSE IF operator \in Comparisons
         THEN Emitted(compare(c, IcmpSigned[operator], left_value, right_value), Ty("i1"))
         ELSE Return2(c, NoneValue, Ty("float"))
    ELSE Return2(c, NoneValue, NoneType)

\* Compiler.__visit_infix_expression, lines 460-533: the instruction for two resolved operands
InfixOf(c, operator, left_value, left_type, right_value, right_type) ==
    IF IsIntType(left_type) /\ IsIntType(right_type)
    THEN IF operator \in DOMAIN IntOps
         THEN Emitted(binop(c, IntOps[operator], left_value, right_value), Ty("i32"))
         ELSE IF operator \in Comparisons
         THEN Emitted(compare(c, IcmpSigned[operator], left_value, right_value), Ty("i1"))
         ELSE Return2(c, NoneValue, Ty("i32"))
    ELSE IF IsFloatType(left_type) /\ IsFloatType(right_type)
    THEN IF operator \in DOMAIN FloatOps
         THEN Emitted(binop(c, FloatOps[operator], left_value, right_value), Ty("float"))
         ELSE IF operator \in Comparisons
         THEN Emitted(compare(c, FcmpOrdered[operator], left_value, right_value), Ty("i1"))
         ELSE Return2(c, NoneValue, Ty("float"))
    ELSE Return2(c, NoneValue, NoneType)

\* Compiler.__visit_prefix_expression, lines 563-581: the instruction for a resolved operand
PrefixOf(c, operator, right_value, right_type) ==
    IF IsFloatType(right_type)
    THEN CASE operator = "-" ->
                Emitted(binop(c, "fmul", right_value, Constant(Ty("float"), FloatLit(-1, <<>>))),
                        Ty("float"))
           [] operator = "!" -> Return2(c, Constant(Ty("i1"), IntLit(0)), Ty("float"))
           [] OTHER -> Return2(c, NoneValue, Ty("float"))
    ELSE IF IsIntType(right_type)
    THEN CASE operator = "-" ->
                Emitted(binop(c, "mul", right_value, Constant(Ty("i32"), IntLit(-1))), Ty("i32"))
           [] operator = "!" ->
                Emitted(IF right_value = NoneValue THEN Raise(c, "AttributeError")
                        ELSE Insert(c, "not", right_value.t, <<right_value>>),
                        Ty("i32"))
           [] OTHER -> Return2(c, NoneValue, Ty("i32"))
    ELSE Return2(c, NoneValue, NoneType)

\* A postfix expression that yields the value after the modification
new_value_as_result(orig_value, new_value) == new_value

\* Compiler.__visit_postfix_expression, line 595: result_value = orig_value
result_value(orig_value, new_value) == orig_value

\* Compiler.__visit_postfix_expression
visit_postfix_expression(c, node) ==
    LET name == node.left_node.value
        b == lookup(c, name)
    IN  IF ~b.bound
        THEN Return2(AddError(c, CompileError("PostfixUndeclared", name, <<>>)), NoneValue, NoneType)
        ELSE Then(load(c, b.ptr), LAMBDA c1 :
             LET orig_value == c1.val
                 isInt == IsIntType(orig_value.t)
                 isFloat == IsFloatType(orig_value.t)
                 one == IF isInt THEN Constant(Ty("i32"), IntLit(1))
                        ELSE Constant(Ty("float"), FloatLit(1, <<>>))
                 op == CASE node.operator = "++" /\ isInt -> "add"
                         [] node.operator = "++" /\ isFloat -> "fadd"
                         [] node.operator = "--" /\ isInt -> "sub"
                         [] node.operator = "--" /\ isFloat -> "fsub"
                         [] OTHER -> "none"
             IN  IF node.operator \in {"++", "--"} /\ ~isInt /\ ~isFloat
                 THEN Return2(AddError(c1, CompileError("PostfixType", name, <<node.operator>>)),
                              NoneValue, NoneType)
                 ELSE IF op = "none" THEN Return2(store(c1, NoneValue, b.ptr), orig_value, b.type)
                 ELSE Then(binop(c1, op, orig_value, one), LAMBDA c2 :
                          Return2(store(c2, c2.val, b.ptr), result_value(orig_value, c2.val),
                                  b.type)))

\* The instruction that produced an instruction value
InstrOf(c, value) ==
    LET b == CHOOSE b \in 1..Len(c.blocks) :
                 \E i \in 1..Len(c.blocks[b].instrs) : c.blocks[b].instrs[i].id = value.n
    IN  c.blocks[b].instrs[CHOOSE i \in 1..Len(c.blocks[b].instrs) :
                               c.blocks[b].instrs[i].id = value.n]

\* Compiler.builtin_printf
builtin_printf(c, params, return_type) ==
    LET func == lookup(c, "printf")
        rest == SubSeq(params, 2, Len(params))
    IN  Then(alloca(IF func.bound THEN c ELSE Raise(c, "TypeError"), return_type), LAMBDA c1 :
        Then(store(c1, params[1], c1.val), LAMBDA c2 :
            IF params[1].v = "instr" /\ params[1].s = "load"
            THEN Then(load(c2, InstrOf(c2, params[1]).args[1]), LAMBDA c3 :
                 Then(Insert(c3, "bitcast", PointerTo(Ty("i8")), <<c3.val>>), LAMBDA c4 :
                      call(c4, func.ptr, <<c4.val>> \o rest)))
            ELSE Then(Insert(c2, "bitcast", PointerTo(Ty("i8")), <<params[1]>>), LAMBDA c3 :
                      call(c3, func.ptr, <<c3.val>> \o rest))))

NoneNode == [type |-> "None"]

\* Compiler.__visit_call_expression, lines 542-546: the arguments resolved in order
RECURSIVE resolve_value(_, _)
RECURSIVE ResolveArguments(_, _, _, _)
ResolveArguments(c, params, args, types) ==
    IF ~Ok(c) \/ params = <<>> THEN [c |-> c, args |-> args, types |-> types]
    ELSE With(Unpack(resolve_value(c, Head(params))), LAMBDA c1 :
             ResolveArguments(c1, Tail(params), Append(args, c1.val), Append(types, c1.typ)))

\* Compiler.__visit_call_expression
visit_call_expression(c, node) ==
    LET name == node.function.value
    IN  With(ResolveArguments(c, node.arguments, <<>>, <<>>), LAMBDA r :
            IF ~Ok(r.c) THEN r.c
            ELSE IF name = "printf"
            THEN IF r.types = <<>> THEN Raise(r.c, "IndexError")
                 ELSE Emitted(builtin_printf(r.c, r.args, r.types[1]), Ty("i32"))
            ELSE LET b == lookup(r.c, name)
                 IN  IF ~b.bound THEN Raise(r.c, "TypeError")
                     ELSE Emitted(call(r.c, b.ptr, r.args), b.type))

\* Compiler.__visit_infix_expression
visit_infix_expression(c, node) ==
    Then(Unpack(resolve_value(c, node.left_node)), LAMBDA c1 :
    Then(Unpack(resolve_value(c1, node.right_node)), LAMBDA c2 :
         InfixOf(c2, node.operator, c1.val, c1.typ, c2.val, c2.typ)))

\* Compiler.__visit_prefix_expression
visit_prefix_expression(c, node) ==
    Then(Unpack(resolve_value(c, node.right_node)), LAMBDA c1 :
         PrefixOf(c1, node.operator, c1.val, c1.typ))

\* Compiler.__resolve_value: node.type() of None raises AttributeError; a node of
\* no listed type falls out of the match and None is returned
resolve_value(c, node) ==
    IF ~Ok(c) THEN c
    ELSE CASE node.type = "None" -> Raise(c, "AttributeError")
           [] node.type = "IntegerLiteral" -> Return2(c, Constant(Ty("i32"), node.value), Ty("i32"))
           [] node.type = "FloatLiteral" -> Return2(c, Constant(Ty("float"), node.value), Ty("float"))
           [] node.type = "IdentifierLiteral" ->
                LET b == lookup(c, node.value)
                IN  IF ~b.bound THEN Raise(c, "TypeError") ELSE Emitted(load(c, b.ptr), b.type)
           [] node.type = "BooleanLiteral" ->
                Return2(c, Constant(Ty("i1"), IntLit(IF node.value THEN 1 ELSE 0)), Ty("i1"))
           [] node.type = "StringLiteral" -> convert_string(c, node.value)
           [] node.type = "InfixExpression" -> visit_infix_expression(c, node)
           [] node.type = "CallExpression" -> visit_call_expression(c, node)
           [] node.type = "PrefixExpression" -> visit_prefix_expression(c, node)
           [] node.type = "PostfixExpression" -> visit_postfix_expression(c, node)
           [] OTHER -> ReturnNone(c)

(***************************************************************************)
(* The AST: statements.  A BlockStatement or Program with any = TRUE       *)
(* stands for every statement list: its statements are supplied one by one *)
(* while it is lowered.                                                    *)
(***************************************************************************)
LetStatement(name, value_type, value) ==
    [type |-> "LetStatement", name |-> IdentifierLiteral(name), value_type |-> value_type,
     value |-> value]
AssignStatement(ident, operator, right_value) ==
    [type |-> "AssignStatement", ident |-> IdentifierLiteral(ident), operator |-> operator,
     right_value |-> right_value]
FunctionParameter(name, value_type) == [name |-> name, value_type |-> value_type]
FunctionStatement(name, parameters, return_type, body) ==
    [type |-> "FunctionStatement", name |-> IdentifierLiteral(name), parameters |-> parameters,
     return_type |-> return_type, body |-> body]
ReturnStatement(return_value) == [type |-> "ReturnStatement", return_value |-> return_value]
ExpressionStatement(expr) == [type |-> "ExpressionStatement", expr |-> expr]
IfStatement(condition, consequence, alternative) ==
    [type |-> "IfStatement", condition |-> condition, consequence |-> consequence,
     alternative |-> alternative]
WhileStatement(condition, body) == [type |-> "WhileStatement", condition |-> condition, body |-> body]
ForStatement(initializer, condition, increment, body) ==
    [type |-> "ForStatement", initializer |-> initializer, condition |-> condition,
     increment |-> increment, body |-> body]
BreakStatement == [type |-> "BreakStatement"]
ContinueStatement == [type |-> "ContinueStatement"]
ImportStatement(module_name) == [type |-> "ImportStatement", module_name |-> StringLiteral(module_name)]
BlockStatement(statements) == [type |-> "BlockStatement", statements |-> statements, any |-> FALSE]
Program(statements) == [type |-> "Program", statements |-> statements, any |-> FALSE]
AnyBlock == [type |-> "BlockStatement", statements |-> <<>>, any |-> TRUE]
AnyProgram == [type |-> "Program", statements |-> <<>>, any |-> TRUE]

(***************************************************************************)
(* compiler.py: statements.  A visit method that lowers a nested block     *)
(* runs up to its call of self.compile(body); what it does after that call *)
(* is the step taken when the block has been lowered.  The frames of the   *)
(* calls in progress are kept on a stack: a frame holds the locals the     *)
(* rest of the method reads.  A visit returns [c, frames]: the compiler    *)
(* afterwards and the frames of the calls it has entered.                  *)
(***************************************************************************)
Done(c) == [c |-> c, frames |-> <<>>]
Entered(c, frames) == [c |-> c, frames |-> IF Ok(c) THEN frames ELSE <<>>]
\* Then for a visit method that enters a nested block
ThenEnter(v, F(_)) == CHOOSE r \in {IF Ok(x) THEN F(x) ELSE Done(x) : x \in {v}} : TRUE

\* self.compile(node) for a BlockStatement or a Program: the loop over its statements
BlockFrame(node) == [pc |-> "block", statements |-> node.statements, any |-> node.any]

\* self.compile(body): enters the loop of __visit_block_statement or __visit_program,
\* does nothing for a node compile does not dispatch on, and raises for None
CompileBlock(c, frame, body) ==
    IF body.type = "None" THEN Entered(Raise(c, "AttributeError"), <<>>)
    ELSE IF body.type \in {"BlockStatement", "Program"} THEN Entered(c, <<frame, BlockFrame(body)>>)
    ELSE Entered(c, <<frame, [pc |-> "block", statements |-> <<body>>, any |-> FALSE]>>)

\* A visit method that leaves self.env as the nested block had it
KeepEnv(c, previous_env) == c

\* line 231 and line 392: self.env = previous_env
RestoreEnv(c, previous_env) == IF ~Ok(c) THEN c ELSE [c EXCEPT !.env = previous_env]

\* lines 322-323 and 367-368: the targets of break and continue are pushed
PushLoopTargets(c, break_target, continue_target) ==
    IF ~Ok(c) THEN c
    ELSE [c EXCEPT !.breakpoints = Append(@, break_target),
                   !.continues = Append(@, continue_target)]

\* A loop end that pops the break target only
PopBreakpoints(c) ==
    IF ~Ok(c) THEN c
    ELSE IF c.breakpoints = <<>> THEN Raise(c, "IndexError")
    ELSE [c EXCEPT !.breakpoints = Front(@)]

\* lines 341-342 and 393-394: self.breakpoints.pop(); self.continues.pop()
PopLoopTargets(c) ==
    IF ~Ok(c) THEN c
    ELSE IF c.breakpoints = <<>> \/ c.continues = <<>> THEN Raise(c, "IndexError")
    ELSE [c EXCEPT !.breakpoints = Front(@), !.continues = Front(@)]

\* A let that allocates a new slot whatever the name resolves to
visit_let_statement_always_new(c, node) ==
    Then(Unpack(resolve_value(c, node.value)), LAMBDA c1 :
    Then(alloca(c1, c1.typ), LAMBDA c2 :
         define(store(c2, c1.val, c2.val), c2.env, node.name.value, c2.val, c1.typ)))

\* A let that keeps the type recorded for a name when it gives the name a new slot
visit_let_statement_old_type(c, node) ==
    Then(Unpack(resolve_value(c, node.value)), LAMBDA c1 :
        LET name == node.name.value
            value == c1.val
            Type == c1.typ
            b == lookup(c1, name)
        IN  IF b.bound /\ b.type = Type THEN store(c1, value, b.ptr)
            ELSE Then(alloca(c1, Type), LAMBDA c2 :
                     define(store(c2, value, c2.val), c2.env, name, c2.val,
                            IF b.bound THEN b.type ELSE Type)))

\* Compiler.__visit_let_statement
visit_let_statement(c, node) ==
    Then(Unpack(resolve_value(c, node.value)), LAMBDA c1 :
        LET name == node.name.value
            value == c1.val
            Type == c1.typ
            b == lookup(c1, name)
        IN  IF b.bound /\ b.type = Type THEN store(c1, value, b.ptr)
            ELSE Then(alloca(c1, Type), LAMBDA c2 :
                     define(store(c2, value, c2.val), c2.env, name, c2.val, Type)))

\* Compiler.__visit_return_statement
visit_return_statement(c, node) ==
    Then(Unpack(resolve_value(c, node.return_value)), LAMBDA c1 : ret(c1, c1.val))

\* An error for the assignment that does not say which identifier it is about
AssignUndeclaredUnnamed(c, name) == AddError(c, CompileError("AssignUndeclared", "", <<>>))

\* line 243: the error for an assignment to a name that does not resolve
AssignUndeclared(c, name) == AddError(c, CompileError("AssignUndeclared", name, <<>>))

\* A compound assignment that takes its operands in the other order
AssignedValueSwapped(c, operator, orig_value, right_value, right_type) ==
    LET int == IsIntType(orig_value.t) /\ IsIntType(right_type)
        op == CASE operator = "+=" -> IF int THEN "add" ELSE "fadd"
                [] operator = "-=" -> IF int THEN "sub" ELSE "fsub"
                [] operator = "*=" -> IF int THEN "mul" ELSE "fmul"
                [] operator = "/=" -> IF int THEN "sdiv" ELSE "fdiv"
                [] OTHER -> "none"
    IN  IF operator = "=" THEN [c EXCEPT !.val = right_value]
        ELSE IF op = "none"
        THEN [AddError(c, CompileError("UnsupportedAssign", operator, <<>>)) EXCEPT !.pair = FALSE]
        ELSE binop(c, op, right_value, orig_value)

\* Compiler.__visit_assign_statement, lines 258-283: the value to store is left in
\* c.val; an operator of no case appends an error and returns (c.pair = FALSE)
AssignedValue(c, operator, orig_value, right_value, right_type) ==
    LET int == IsIntType(orig_value.t) /\ IsIntType(right_type)
        op == CASE operator = "+=" -> IF int THEN "add" ELSE "fadd"
                [] operator = "-=" -> IF int THEN "sub" ELSE "fsub"
                [] operator = "*=" -> IF int THEN "mul" ELSE "fmul"
                [] operator = "/=" -> IF int THEN "sdiv" ELSE "fdiv"
                [] OTHER -> "none"
    IN  IF operator = "=" THEN [c EXCEPT !.val = right_value]
        ELSE IF op = "none"
        THEN [AddError(c, CompileError("UnsupportedAssign", operator, <<>>)) EXCEPT !.pair = FALSE]
        ELSE binop(c, op, orig_value, right_value)

\* Compiler.__visit_assign_statement.  After the two conversions c3.val is
\* orig_value and c4.val is right_value.
visit_assign_statement(c, node) ==
    LET name == node.ident.value
    IN  IF ~lookup(c, name).bound THEN AssignUndeclared(c, name)
        ELSE Then(Unpack(resolve_value(c, node.right_value)), LAMBDA c1 :
             Then(load(c1, lookup(c1, name).ptr), LAMBDA c2 :
             Then(IF IsIntType(c2.val.t) /\ IsFloatType(c1.typ)
                  THEN sitofp(c2, c2.val, Ty("float")) ELSE c2, LAMBDA c3 :
             Then(IF IsFloatType(c3.val.t) /\ IsIntType(c1.typ)
                  THEN sitofp(c3, c1.val, Ty("float")) ELSE [c3 EXCEPT !.val = c1.val], LAMBDA c4 :
             Then(AssignedValue(c4, node.operator, c3.val, c4.val, c1.typ), LAMBDA c5 :
                  IF ~c5.pair THEN c5 ELSE store(c5, c5.val, lookup(c5, name).ptr))))))

\* Compiler.__visit_break_statement
visit_break_statement(c, node) ==
    IF c.breakpoints = <<>> THEN Raise(c, "IndexError") ELSE branch(c, Last(c.breakpoints))

\* Compiler.__visit_continue_statement
visit_continue_statement(c, node) ==
    IF c.continues = <<>> THEN Raise(c, "IndexError") ELSE branch(c, Last(c.continues))

\* self.env = Environment(parent=self.env)
EnterScope(c) ==
    IF ~Ok(c) THEN c
    ELSE LET c1 == NewEnvironment(c, c.env) IN [c1 EXCEPT !.env = Len(c1.envs)]

\* Compiler.__visit_function_statement, lines 212-215: a slot for each parameter
RECURSIVE StoreParameters(_, _, _, _, _)
StoreParameters(c, fname, params_types, i, params_ptr) ==
    IF ~Ok(c) \/ i > Len(params_types) THEN [c |-> c, params_ptr |-> params_ptr]
    ELSE With(alloca(c, params_types[i]), LAMBDA c1 :
             StoreParameters(store(c1, ArgValue(params_types[i], fname, i), c1.val),
                             fname, params_types, i + 1, Append(params_ptr, c1.val)))

\* Compiler.__visit_function_statement, lines 221-225: the parameters are defined
RECURSIVE DefineParameters(_, _, _, _, _)
DefineParameters(c, params_names, params_types, params_ptr, i) ==
    IF ~Ok(c) \/ i > Len(params_names) THEN c
    ELSE DefineParameters(define(c, c.env, params_names[i], params_ptr[i], params_types[i]),
                          params_names, params_types, params_ptr, i + 1)

\* Compiler.__visit_function_statement up to self.compile(body), line 229
visit_function_statement(c, node) ==
    LET name == node.name.value
        params == node.parameters
        params_names == [i \in 1..Len(params) |-> params[i].name]
        known == /\ \A i \in 1..Len(params) : params[i].value_type \in TypeNames
                 /\ node.return_type \in TypeNames
        params_types == [i \in 1..Len(params) |-> type_map(params[i].value_type)]
        return_type == type_map(node.return_type)
    IN  IF ~known THEN Done(Raise(c, "KeyError"))
        ELSE ThenEnter(Function(c, name, return_type, params_types), LAMBDA c1 :
             ThenEnter(function_append_basic_block(c1, name, <<name, "_entry">>), LAMBDA c2 :
             With(StoreParameters(position_at(c2, Len(c2.blocks)), name, params_types, 1, <<>>),
                  LAMBDA r :
             ThenEnter(EnterScope(r.c), LAMBDA c3 :
             ThenEnter(DefineParameters(c3, params_names, params_types, r.params_ptr, 1),
                       LAMBDA c4 :
                 CompileBlock(define(c4, c4.env, name, FunctionValue(name), return_type),
                              [pc |-> "function", name |-> name, return_type |-> return_type,
                               previous_env |-> c.env, previous_builder |-> c.builder],
                              node.body))))))

\* An end of the function statement that leaves the name out of the enclosing scope
function_statement_end_unbound(c, frame) ==
    Then(RestoreEnv(c, frame.previous_env), LAMBDA c1 :
         position_at(c1, frame.previous_builder))

\* Compiler.__visit_function_statement, lines 231-234: after self.compile(body)
function_statement_end(c, frame) ==
    Then(RestoreEnv(c, frame.previous_env), LAMBDA c1 :
         position_at(define(c1, c1.env, frame.name, FunctionValue(frame.name), frame.return_type),
                     frame.previous_builder))

\* Compiler.__visit_if_statement up to self.compile(consequence): IRBuilder.if_then
\* and IRBuilder.if_else append their blocks, branch on the test and move the
\* builder to the end of the block of the first branch
visit_if_statement(c, node) ==
    ThenEnter(Unpack(resolve_value(c, node.condition)), LAMBDA c1 :
    ThenEnter(append_basic_block(c1, "if"), LAMBDA c2 :
        LET test == c1.val
            bbif == Len(c2.blocks)
        IN  IF node.alternative.type = "None"
            THEN ThenEnter(append_basic_block(c2, "endif"), LAMBDA c3 :
                     CompileBlock(position_at(cbranch(c3, test, bbif, Len(c3.blocks)), bbif),
                                  [pc |-> "if_then", bbend |-> Len(c3.blocks)],
                                  node.consequence))
            ELSE ThenEnter(append_basic_block(c2, "else"), LAMBDA c3 :
                 ThenEnter(append_basic_block(c3, "endif"), LAMBDA c4 :
                     CompileBlock(position_at(cbranch(c4, test, bbif, Len(c3.blocks)), bbif),
                                  [pc |-> "if_else_true", bbelse |-> Len(c3.blocks),
                                   bbend |-> Len(c4.blocks), alternative |-> node.alternative],
                                  node.consequence)))))

\* IRBuilder._branch_helper after its body: the block is closed with a branch to
\* bbexit unless the body has terminated it
branch_helper_exit(c, bbexit) ==
    IF ~Ok(c) THEN c
    ELSE IF c.blocks[c.builder].terminated THEN c
    ELSE branch(c, bbexit)

\* line 298-299, after self.compile(consequence): the end of "with if_then"
if_then_end(c, frame) == position_at(branch_helper_exit(c, frame.bbend), frame.bbend)

\* lines 309-312: the end of "with true", then "with otherwise" up to
\* self.compile(alternative)
if_else_true_end(c, frame) ==
    CompileBlock(position_at(branch_helper_exit(c, frame.bbend), frame.bbelse),
                 [pc |-> "if_else_otherwise", bbend |-> frame.bbend], frame.alternative)

\* line 312, after self.compile(alternative): the end of "with otherwise" and of
\* "with if_else"
if_else_otherwise_end(c, frame) ==
    position_at(branch_helper_exit(c, frame.bbend), frame.bbend)

\* Compiler.__visit_while_statement up to self.compile(body), line 335
visit_while_statement(c, node) ==
    ThenEnter(increment_counter(c), LAMBDA c1 :
    ThenEnter(append_basic_block(c1, <<"while_loop_condition", c1.counter>>), LAMBDA c2 :
    ThenEnter(append_basic_block(c2, <<"while_loop_body", c1.counter>>), LAMBDA c3 :
    ThenEnter(append_basic_block(c3, <<"while_loop_end", c1.counter>>), LAMBDA c4 :
        LET while_loop_condition == Len(c2.blocks)
            while_loop_body == Len(c3.blocks)
            while_loop_end == Len(c4.blocks)
        IN  ThenEnter(PushLoopTargets(c4, while_loop_end, while_loop_condition), LAMBDA c5 :
            ThenEnter(position_at(branch(c5, while_loop_condition), while_loop_condition),
                      LAMBDA c6 :
            ThenEnter(Unpack(resolve_value(c6, node.condition)), LAMBDA c7 :
                CompileBlock(position_at(cbranch(c7, c7.val, while_loop_body, while_loop_end),
                                         while_loop_body),
                             [pc |-> "while", while_loop_condition |-> while_loop_condition,
                              while_loop_end |-> while_loop_end],
                             node.body))))))))

\* Compiler.__visit_while_statement, lines 336-342: after self.compile(body)
while_statement_end(c, frame) ==
    PopLoopTargets(position_at(branch(c, frame.while_loop_condition), frame.while_loop_end))

\* line 360: self.compile(initializer); the parser hands over a LetStatement or None
compile_initializer(c, node) ==
    IF ~Ok(c) THEN c
    ELSE IF node.type = "None" THEN Raise(c, "AttributeError")
    ELSE IF node.type = "LetStatement" THEN visit_let_statement(c, node)
    ELSE c

\* Compiler.__visit_for_statement up to self.compile(body), line 380
visit_for_statement(c, node) ==
    ThenEnter(EnterScope(c), LAMBDA c0 :
    ThenEnter(increment_counter(compile_initializer(c0, node.initializer)), LAMBDA c1 :
    ThenEnter(append_basic_block(c1, <<"for_loop_condition", c1.counter>>), LAMBDA c2 :
    ThenEnter(append_basic_block(c2, <<"for_loop_body", c1.counter>>), LAMBDA c3 :
    ThenEnter(append_basic_block(c3, <<"for_loop_increment", c1.counter>>), LAMBDA c4 :
    ThenEnter(append_basic_block(c4, <<"for_loop_end", c1.counter>>), LAMBDA c5 :
        LET for_loop_condition == Len(c2.blocks)
            for_loop_body == Len(c3.blocks)
            for_loop_increment == Len(c4.blocks)
            for_loop_end == Len(c5.blocks)
        IN  ThenEnter(PushLoopTargets(c5, for_loop_end, for_loop_increment), LAMBDA c6 :
            ThenEnter(position_at(branch(c6, for_loop_condition), for_loop_condition),
                      LAMBDA c7 :
            ThenEnter(Unpack(resolve_value(c7, node.condition)), LAMBDA c8 :
                CompileBlock(position_at(cbranch(c8, c8.val, for_loop_body, for_loop_end),
                                         for_loop_body),
                             [pc |-> "for", previous_env |-> c.env, increment |-> node.increment,
                              for_loop_condition |-> for_loop_condition,
                              for_loop_increment |-> for_loop_increment,
                              for_loop_end |-> for_loop_end],
                             node.body))))))))))

\* A lowering whose body jumps back to the condition, past the step
for_statement_end_body_to_condition(c, frame) ==
    Then(position_at(branch(c, frame.for_loop_condition), frame.for_loop_increment), LAMBDA c1 :
    Then(resolve_value(c1, frame.increment), LAMBDA c2 :
         PopLoopTargets(RestoreEnv(position_at(branch(c2, frame.for_loop_condition),
                                               frame.for_loop_end),
                                   frame.previous_env))))

\* Compiler.__visit_for_statement, lines 381-394: after self.compile(body)
for_statement_end(c, frame) ==
    Then(position_at(branch(c, frame.for_loop_increment), frame.for_loop_increment), LAMBDA c1 :
    Then(resolve_value(c1, frame.increment), LAMBDA c2 :
         PopLoopTargets(RestoreEnv(position_at(branch(c2, frame.for_loop_condition),
                                               frame.for_loop_end),
                                   frame.previous_env))))

(***************************************************************************)
(* Imports.  A string is a sequence of atoms: a letter, the quote, ".lime",*)
(* "tests/" and "./".  A file is given by what reading and parsing it      *)
(* yields: whether open succeeds, parser.errors and the Program.           *)
(***************************************************************************)
\* lines 398-406: the quotes and the .lime extension are removed
module_name_of(module_name_raw) ==
    LET n == Len(module_name_raw)
        unquoted == IF n > 0 /\ module_name_raw[1] = "\"" /\ module_name_raw[n] = "\""
                    THEN SubSeq(module_name_raw, 2, n - 1)
                    ELSE module_name_raw
    IN  IF unquoted # <<>> /\ Last(unquoted) = ".lime" THEN Front(unquoted) ELSE unquoted

\* The candidates with the working directory before tests/
possible_paths_local_first(module_name) ==
    << <<"./">> \o module_name \o <<".lime">>,
       module_name \o <<".lime">>,
       <<"tests/">> \o module_name \o <<".lime">> >>

\* lines 414-418
possible_paths(module_name) ==
    << <<"tests/">> \o module_name \o <<".lime">>,
       <<"./">> \o module_name \o <<".lime">>,
       module_name \o <<".lime">> >>

RawNames == { <<"m">>, <<"m", ".lime">>, <<"\"", "m", "\"">>, <<"n">> }
ModuleNames == {module_name_of(raw) : raw \in RawNames}
\* The files of the model: tests/<name>.lime and <name>.lime of the working directory
FsPaths ==
    {<<"tests/">> \o n \o <<".lime">> : n \in ModuleNames} \cup {n \o <<".lime">> : n \in ModuleNames}

NoFile == [exists |-> FALSE, readable |-> FALSE, errors |-> <<>>, program |-> NoneNode]
File(program) == [exists |-> TRUE, readable |-> TRUE, errors |-> <<>>, program |-> program]
UnreadableFile == [exists |-> TRUE, readable |-> FALSE, errors |-> <<>>, program |-> NoneNode]
BrokenFile(program) ==
    [exists |-> TRUE, readable |-> TRUE, errors |-> << <<"parse error">> >>, program |-> program]

\* os.path.isfile: "./f" names the file "f" of the working directory
normpath(path) == IF path[1] = "./" THEN Tail(path) ELSE path
isfile(files, path) == files[normpath(path)].exists

\* lines 420-424: the first candidate that is a file, or None (0)
file_path_index(files, paths) ==
    IF \E i \in 1..Len(paths) : isfile(files, paths[i])
    THEN CHOOSE i \in 1..Len(paths) :
             isfile(files, paths[i]) /\ \A j \in 1..(i - 1) : ~isfile(files, paths[j])
    ELSE 0

\* line 427
CannotFindModule(c, module_name, paths) ==
    AddError(c, CompileError("CannotFindModule", module_name, paths))

\* lines 442-444: the header and one line for each parser error
RECURSIVE AddParserErrors(_, _)
AddParserErrors(c, errs) ==
    IF errs = <<>> THEN c
    ELSE AddParserErrors(AddError(c, CompileError("ParserError", Head(errs), <<>>)), Tail(errs))

\* Compiler.__visit_import_statement up to self.compile(imported_program), line 451.
\* depth is the number of imports in progress: the interpreter raises
\* RecursionError when the calls nest deeper than its limit.  The frame of the
\* call keeps which branch of line 409 was taken.
visit_import_statement(c, node, files, depth) ==
    LET module_name_raw == node.module_name.value
        module_name == module_name_of(module_name_raw.s)
        paths == possible_paths(module_name)
        i == file_path_index(files, paths)
        file == files[normpath(paths[i])]
        cached == [c EXCEPT !.global_parsed_pallets[module_name] = file.program]
        enter(cc, program, hit) ==
            IF depth >= RecursionLimit THEN Done(Raise(cc, "RecursionError"))
            ELSE CompileBlock(cc, [pc |-> "import", module_name |-> module_name,
                                   already_imported |-> hit],
                              program)
    IN  IF module_name_raw.k = "none" THEN Done(Raise(c, "AttributeError"))
        ELSE IF c.global_parsed_pallets[module_name].type # "None"
        THEN enter(c, c.global_parsed_pallets[module_name], TRUE)
        ELSE IF i = 0 THEN Done(CannotFindModule(c, module_name, paths))
        ELSE IF ~file.readable
        THEN Done(AddError(c, CompileError("FailedToRead", module_name, <<paths[i]>>)))
        ELSE IF Len(file.errors) > 0
        THEN Done(AddParserErrors(AddError(c, CompileError("ParsingModule", module_name, <<>>)),
                                  file.errors))
        ELSE enter(cached, file.program, FALSE)

\* Compiler.__visit_import_statement after self.compile(imported_program)
import_statement_end(c, frame) == c

\* Compiler.__visit_expression_statement: self.compile(node.expr).  Of the nodes
\* the parser returns for an expression, compile dispatches on an if-expression
\* (an IfStatement) and on three kinds of expression; node.type() of None raises.
visit_expression_statement(c, node) ==
    CASE node.expr.type = "None" -> Done(Raise(c, "AttributeError"))
      [] node.expr.type = "IfStatement" -> visit_if_statement(c, node.expr)
      [] node.expr.type = "InfixExpression" -> Done(visit_infix_expression(c, node.expr))
      [] node.expr.type = "CallExpression" -> Done(visit_call_expression(c, node.expr))
      [] node.expr.type = "PostfixExpression" -> Done(visit_postfix_expression(c, node.expr))
      [] OTHER -> Done(c)

\* Compiler.compile for a statement of a block: the visit method of the node's type.
\* The result is [c, frames], as for the visit methods that enter a block.
compile(c, node, files, depth) ==
    CASE node.type = "None" -> Done(Raise(c, "AttributeError"))
      [] node.type = "ExpressionStatement" -> visit_expression_statement(c, node)
      [] node.type = "LetStatement" -> Done(visit_let_statement(c, node))
      [] node.type = "FunctionStatement" -> visit_function_statement(c, node)
      [] node.type = "ReturnStatement" -> Done(visit_return_statement(c, node))
      [] node.type = "AssignStatement" -> Done(visit_assign_statement(c, node))
      [] node.type = "IfStatement" -> visit_if_statement(c, node)
      [] node.type = "WhileStatement" -> visit_while_statement(c, node)
      [] node.type = "BreakStatement" -> Done(visit_break_statement(c, node))
      [] node.type = "ContinueStatement" -> Done(visit_continue_statement(c, node))
      [] node.type = "ForStatement" -> visit_for_statement(c, node)
      [] node.type = "ImportStatement" -> visit_import_statement(c, node, files, depth)
      [] OTHER -> Done(c)

(***************************************************************************)
(* Compiler.__init__                                                       *)
(***************************************************************************)
\* __initialize_builtins: printf, true and false in the module and the environment
NewCompiler ==
    [module |-> << [name |-> "printf", kind |-> "function", ret |-> Ty("i32"),
                    args |-> <<PointerTo(Ty("i8"))>>, var_arg |-> TRUE],
                   [name |-> "true", kind |-> "global", ret |-> Ty("i1"), args |-> <<>>,
                    var_arg |-> FALSE],
                   [name |-> "false", kind |-> "global", ret |-> Ty("i1"), args |-> <<>>,
                    var_arg |-> FALSE] >>,
     blocks |-> <<>>,
     builder |-> 0,
     envs |-> << [records |-> [n \in EnvNames |->
                                 CASE n = "printf" -> Binding(FunctionValue("printf"), Ty("i32"))
                                   [] n = "true" -> Binding(GlobalValue(Ty("i1"), "true"), Ty("i1"))
                                   [] n = "false" -> Binding(GlobalValue(Ty("i1"), "false"), Ty("i1"))
                                   [] OTHER -> NoBinding],
                  parent |-> 0] >>,
     env |-> 1,
     counter |-> 0,
     errors |-> <<>>,
     breakpoints |-> <<>>,
     continues |-> <<>>,
     global_parsed_pallets |-> [n \in ModuleNames |-> NoneNode],
     exc |-> "none",
     val |-> NoneValue,
     typ |-> NoneType,
     pair |-> FALSE,
     ninstr |-> 0]

(***************************************************************************)
(* lime_parser.py                                                          *)
(*                                                                         *)
(* A Parser object is the record p: its Lexer, current_token, peek_token   *)
(* and errors.  p.exc is the exception propagating out of the parser (it   *)
(* has no try around its calls of the lexer), p.ret the value the last     *)
(* parse method returned (NoneNode for None), p.program the statements     *)
(* parse_program has appended so far and p.pc how far main.py has got      *)
(* with the parser.  An error message is kept as the sequence of its       *)
(* parts.                                                                  *)
(***************************************************************************)
\* main.py is not running
NoMain ==
    [pc |-> "none", from |-> "none", status |-> 0, run_code |-> FALSE,
     result |-> [def |-> FALSE, n |-> 0]]

\* PrecedenceType
P_LOWEST == 0
P_EQUALS == 1
P_LESSGREATER == 2
P_SUM == 3
P_PRODUCT == 4
P_EXPONENT == 5
P_PREFIX == 6
P_CALL == 7
P_INDEX == 8

PRECEDENCES ==
    [tt \in {"PLUS", "MINUS", "SLASH", "ASTERISK", "MODULO", "POWER", "EQ_EQ", "NOT_EQ",
             "LT", "GT", "LT_EQ", "GT_EQ", "LPAREN", "PLUS_PLUS", "MINUS_MINUS"} |->
        CASE tt \in {"PLUS", "MINUS"} -> P_SUM
          [] tt \in {"SLASH", "ASTERISK", "MODULO"} -> P_PRODUCT
          [] tt = "POWER" -> P_EXPONENT
          [] tt \in {"EQ_EQ", "NOT_EQ"} -> P_EQUALS
          [] tt \in {"LT", "GT", "LT_EQ", "GT_EQ"} -> P_LESSGREATER
          [] tt = "LPAREN" -> P_CALL
          [] OTHER -> P_INDEX]

\* Parser.__init__, lines 57-70: the keys of prefix_parse_fns
prefix_parse_fns ==
    {"IDENT", "INT", "FLOAT", "LPAREN", "IF", "TRUE", "FALSE", "STRING", "BANG", "MINUS"}

\* Parser.__init__, lines 71-88: the keys of infix_parse_fns
infix_parse_fns ==
    {"PLUS", "MINUS", "SLASH", "ASTERISK", "POWER", "MODULO", "EQ_EQ", "NOT_EQ", "LT", "GT",
     "LT_EQ", "GT_EQ", "LPAREN", "PLUS_PLUS", "MINUS_MINUS"}

\* No Parser has been constructed
NoParser ==
    [lexer |-> NewLexer(<<>>), current_token |-> NoToken, peek_token |-> NoToken,
     errors |-> <<>>, exc |-> "none", ret |-> NoneNode, program |-> <<>>, pc |-> "none"]

\* return node
Ret(p, node) == [p EXCEPT !.ret = node]

\* A list a parse method returns
ListOf(items) == [type |-> "list", items |-> items]
\* The value of p.ret as the attribute of a node: a list, or None
Returned1(p) == IF p.ret.type = "list" THEN p.ret.items ELSE p.ret

\* Parser.__next_token
parser_next_token(p) ==
    CHOOSE q \in {IF r.exc = "none"
                  THEN [p EXCEPT !.current_token = p.peek_token, !.peek_token = r.tok,
                                 !.lexer = r.lx]
                  ELSE [p EXCEPT !.current_token = p.peek_token, !.lexer = r.lx,
                                 !.exc = r.exc] : r \in {next_token(p.lexer)}} : TRUE

\* Parser.__current_token_is
current_token_is(p, tt) == p.current_token.type = tt

\* Parser.__peek_token_is
peek_token_is(p, tt) == p.peek_token.type = tt

\* Parser.__peek_token_is_assignment
peek_token_is_assignment(p) ==
    p.peek_token.type \in {"EQ", "PLUS_EQ", "MINUS_EQ", "MUL_EQ", "DIV_EQ"}

\* Parser.__peek_error
peek_error(p, tt) ==
    [p EXCEPT !.errors = Append(@, <<"Expected next token to be", tt, p.peek_token.type>>)]

\* Parser.__expect_peek
expect_peek(p, tt) == IF peek_token_is(p, tt) THEN parser_next_token(p) ELSE peek_error(p, tt)

\* if not self.__expect_peek(tt): return None; followed by the statements F
ExpectPeek(v, tt, F(_)) ==
    CHOOSE r \in {IF peek_token_is(p, tt) THEN Then(expect_peek(p, tt), F)
                  ELSE Ret(expect_peek(p, tt), NoneNode) : p \in {v}} : TRUE

\* Parser.__current_precedence
current_precedence(p) ==
    IF p.current_token.type \in DOMAIN PRECEDENCES THEN PRECEDENCES[p.current_token.type]
    ELSE P_LOWEST

\* Parser.__peek_precedence
peek_precedence(p) ==
    IF p.peek_token.type \in DOMAIN PRECEDENCES THEN PRECEDENCES[p.peek_token.type]
    ELSE P_LOWEST

\* __no_prefix_parse_fn_error without its append
no_prefix_parse_fn_silent(p, tt) == p

\* Parser.__no_prefix_parse_fn_error
no_prefix_parse_fn_error(p, tt) ==
    [p EXCEPT !.errors = Append(@, <<"No prefix parse function for", tt>>)]

\* if self.__peek_token_is(TokenType.SEMICOLON): self.__next_token()
SkipSemicolon(p) == IF peek_token_is(p, "SEMICOLON") THEN parser_next_token(p) ELSE p

\* Parser.__parse_identifier
parse_identifier(p) == Ret(p, IdentifierLiteral(p.current_token.literal))

\* Parser.__parse_int_literal: int() of the literal of the token
parse_int_literal(p) ==
    IF p.current_token.literal.k = "int"
    THEN Ret(p, IntegerLiteral(p.current_token.literal.n))
    ELSE Ret([p EXCEPT !.errors = Append(@, <<"Could not parse as integer">>)], NoneNode)

\* Parser.__parse_float_literal: float() of the literal of the token
parse_float_literal(p) ==
    IF p.current_token.literal.k = "float"
    THEN Ret(p, FloatLiteral(p.current_token.literal.n, p.current_token.literal.s))
    ELSE Ret([p EXCEPT !.errors = Append(@, <<"Could not parse as float">>)], NoneNode)

\* Parser.__parse_boolean
parse_boolean(p) == Ret(p, BooleanLiteral(current_token_is(p, "TRUE")))

\* Parser.__parse_string_literal
parse_string_literal(p) == Ret(p, StringLiteral(p.current_token.literal))

\* Parser.__parse_postfix_expression
parse_postfix_expression(p, left_node) ==
    Ret(p, PostfixExpression(left_node, p.current_token.literal))

RECURSIVE parse_statement(_)
RECURSIVE parse_expression(_, _)
RECURSIVE parse_block_statement(_)

\* Parser.__parse_prefix_expression
parse_prefix_expression(p) ==
    Then(parser_next_token(p), LAMBDA p1 :
    Then(parse_expression(p1, P_PREFIX), LAMBDA p2 :
    Ret(p2, PrefixExpression(p.current_token.literal, p2.ret))))

\* An infix handler that re-enters the expression parser with the lowest precedence
parse_infix_expression_lowest(p, left_node) ==
    Then(parser_next_token(p), LAMBDA p1 :
    Then(parse_expression(p1, P_LOWEST), LAMBDA p2 :
    Ret(p2, InfixExpression(left_node, p.current_token.literal, p2.ret))))

\* Parser.__parse_infix_expression
parse_infix_expression(p, left_node) ==
    Then(parser_next_token(p), LAMBDA p1 :
    Then(parse_expression(p1, current_precedence(p)), LAMBDA p2 :
    Ret(p2, InfixExpression(left_node, p.current_token.literal, p2.ret))))

\* Parser.__parse_grouped_expression
parse_grouped_expression(p) ==
    Then(parser_next_token(p), LAMBDA p1 :
    Then(parse_expression(p1, P_LOWEST), LAMBDA p2 :
    ExpectPeek(p2, "RPAREN", LAMBDA p3 : p3)))

\* Parser.__parse_expression_list, lines 498-506
RECURSIVE ExpressionListLoop(_, _, _)
ExpressionListLoop(p, end, e_list) ==
    IF peek_token_is(p, "COMMA")
    THEN Then(parser_next_token(p), LAMBDA p1 :
         Then(parser_next_token(p1), LAMBDA p2 :
         Then(parse_expression(p2, P_LOWEST), LAMBDA p3 :
         ExpressionListLoop(p3, end, Append(e_list, p3.ret)))))
    ELSE ExpectPeek(p, end, LAMBDA p1 : Ret(p1, ListOf(e_list)))

\* Parser.__parse_expression_list
parse_expression_list(p, end) ==
    IF peek_token_is(p, end)
    THEN Then(parser_next_token(p), LAMBDA p1 : Ret(p1, ListOf(<<>>)))
    ELSE Then(parser_next_token(p), LAMBDA p1 :
         Then(parse_expression(p1, P_LOWEST), LAMBDA p2 :
         ExpressionListLoop(p2, end, <<p2.ret>>)))

\* Parser.__parse_call_expression
parse_call_expression(p, function) ==
    Then(parse_expression_list(p, "RPAREN"), LAMBDA p1 :
    Ret(p1, CallExpression(function, Returned1(p1))))

\* Parser.__parse_if_expression
parse_if_expression(p) ==
    Then(parser_next_token(p), LAMBDA p1 :
    Then(parse_expression(p1, P_LOWEST), LAMBDA p2 :
    ExpectPeek(p2, "LBRACE", LAMBDA p3 :
    Then(parse_block_statement(p3), LAMBDA p4 :
    IF peek_token_is(p4, "ELSE")
    THEN Then(parser_next_token(p4), LAMBDA p5 :
         ExpectPeek(p5, "LBRACE", LAMBDA p6 :
         Then(parse_block_statement(p6), LAMBDA p7 :
         Ret(p7, IfStatement(p2.ret, p4.ret, p7.ret)))))
    ELSE Ret(p4, IfStatement(p2.ret, p4.ret, NoneNode))))))

\* prefix(): the prefix parse function of the current token
PrefixParse(p) ==
    CASE p.current_token.type = "IDENT" -> parse_identifier(p)
      [] p.current_token.type = "INT" -> parse_int_literal(p)
      [] p.current_token.type = "FLOAT" -> parse_float_literal(p)
      [] p.current_token.type = "LPAREN" -> parse_grouped_expression(p)
      [] p.current_token.type = "IF" -> parse_if_expression(p)
      [] p.current_token.type \in {"TRUE", "FALSE"} -> parse_boolean(p)
      [] p.current_token.type = "STRING" -> parse_string_literal(p)
      [] OTHER -> parse_prefix_expression(p)

\* infix(left_expr): the infix parse function of the current token
InfixParse(p, left_expr) ==
    CASE p.current_token.type = "LPAREN" -> parse_call_expression(p, left_expr)
      [] p.current_token.type \in {"PLUS_PLUS", "MINUS_MINUS"} ->
            parse_postfix_expression(p, left_expr)
      [] OTHER -> parse_infix_expression(p, left_expr)

\* Parser.__parse_expression, lines 448-458: p.ret is left_expr
RECURSIVE InfixLoop(_, _)
InfixLoop(p, precedence) ==
    IF ~peek_token_is(p, "SEMICOLON") /\ precedence < peek_precedence(p)
    THEN IF p.peek_token.type \notin infix_parse_fns THEN p
         ELSE Then(parser_next_token(p), LAMBDA p1 :
              Then(InfixParse(p1, p.ret), LAMBDA p2 :
              InfixLoop(p2, precedence)))
    ELSE p

\* Parser.__parse_expression
parse_expression(p, precedence) ==
    IF p.current_token.type \notin prefix_parse_fns
    THEN Ret(no_prefix_parse_fn_error(p, p.current_token.type), NoneNode)
    ELSE Then(PrefixParse(p), LAMBDA p1 : InfixLoop(p1, precedence))

\* Parser.__parse_expression_statement
parse_expression_statement(p) ==
    Then(parse_expression(p, P_LOWEST), LAMBDA p1 :
    Then(SkipSemicolon(p1), LAMBDA p2 :
    Ret(p2, ExpressionStatement(p1.ret))))

\* Parser.__parse_let_statement
parse_let_statement(p) ==
    ExpectPeek(p, "IDENT", LAMBDA p1 :
    ExpectPeek(p1, "COLON", LAMBDA p2 :
    ExpectPeek(p2, "TYPE", LAMBDA p3 :
    ExpectPeek(p3, "EQ", LAMBDA p4 :
    Then(parser_next_token(p4), LAMBDA p5 :
    Then(parse_expression(p5, P_LOWEST), LAMBDA p6 :
    Ret(p6, LetStatement(p1.current_token.literal, p3.current_token.literal, p6.ret))))))))

\* Parser.__parse_function_parameters, lines 275-293
RECURSIVE FunctionParametersLoop(_, _)
FunctionParametersLoop(p, params) ==
    IF peek_token_is(p, "COMMA")
    THEN Then(parser_next_token(p), LAMBDA p1 :
         Then(parser_next_token(p1), LAMBDA p2 :
         ExpectPeek(p2, "COLON", LAMBDA p3 :
         Then(parser_next_token(p3), LAMBDA p4 :
         FunctionParametersLoop(p4, Append(params,
             FunctionParameter(p2.current_token.literal, p4.current_token.literal)))))))
    ELSE ExpectPeek(p, "RPAREN", LAMBDA p1 : Ret(p1, ListOf(params)))

\* Parser.__parse_function_parameters
parse_function_parameters(p) ==
    IF peek_token_is(p, "RPAREN")
    THEN Then(parser_next_token(p), LAMBDA p1 : Ret(p1, ListOf(<<>>)))
    ELSE Then(parser_next_token(p), LAMBDA p1 :
         ExpectPeek(p1, "COLON", LAMBDA p2 :
         Then(parser_next_token(p2), LAMBDA p3 :
         FunctionParametersLoop(p3,
             <<FunctionParameter(p1.current_token.literal, p3.current_token.literal)>>))))

\* Parser.__parse_function_statement
parse_function_statement(p) ==
    ExpectPeek(p, "IDENT", LAMBDA p1 :
    ExpectPeek(p1, "LPAREN", LAMBDA p2 :
    Then(parse_function_parameters(p2), LAMBDA p3 :
    ExpectPeek(p3, "ARROW", LAMBDA p4 :
    ExpectPeek(p4, "TYPE", LAMBDA p5 :
    ExpectPeek(p5, "LBRACE", LAMBDA p6 :
    Then(parse_block_statement(p6), LAMBDA p7 :
    Ret(p7, FunctionStatement(p1.current_token.literal, Returned1(p3),
                              p5.current_token.literal, p7.ret)))))))))

\* Parser.__parse_return_statement
parse_return_statement(p) ==
    Then(parser_next_token(p), LAMBDA p1 :
    Then(parse_expression(p1, P_LOWEST), LAMBDA p2 :
    ExpectPeek(p2, "SEMICOLON", LAMBDA p3 :
    Ret(p3, ReturnStatement(p2.ret)))))

\* Parser.__parse_block_statement, lines 313-319
RECURSIVE BlockLoop(_, _)
BlockLoop(p, statements) ==
    IF current_token_is(p, "RBRACE") \/ current_token_is(p, "EOF")
    THEN Ret(p, BlockStatement(statements))
    ELSE Then(parse_statement(p), LAMBDA p1 :
         Then(parser_next_token(p1), LAMBDA p2 :
         BlockLoop(p2, IF p1.ret.type = "None" THEN statements
                       ELSE Append(statements, p1.ret))))

\* Parser.__parse_block_statement
parse_block_statement(p) == Then(parser_next_token(p), LAMBDA p1 : BlockLoop(p1, <<>>))

\* Parser.__parse_assignment_statement
parse_assignment_statement(p) ==
    IF ~peek_token_is_assignment(p) THEN Ret(p, NoneNode)
    ELSE Then(parser_next_token(p), LAMBDA p1 :
         Then(parser_next_token(p1), LAMBDA p2 :
         Then(parse_expression(p2, P_LOWEST), LAMBDA p3 :
         Ret(p3, AssignStatement(p.current_token.literal, p1.current_token.literal,
                                 p3.ret)))))

\* Parser.__parse_while_statement
parse_while_statement(p) ==
    Then(parser_next_token(p), LAMBDA p1 :
    Then(parse_expression(p1, P_LOWEST), LAMBDA p2 :
    ExpectPeek(p2, "LBRACE", LAMBDA p3 :
    Then(parse_block_statement(p3), LAMBDA p4 :
    Ret(p4, WhileStatement(p2.ret, p4.ret))))))

\* Parser.__parse_break_statement
parse_break_statement(p) == Then(SkipSemicolon(p), LAMBDA p1 : Ret(p1, BreakStatement))

\* Parser.__parse_continue_statement
parse_continue_statement(p) == Then(SkipSemicolon(p), LAMBDA p1 : Ret(p1, ContinueStatement))

\* Parser.__parse_for_statement
parse_for_statement(p) ==
    ExpectPeek(p, "LPAREN", LAMBDA p1 :
    ExpectPeek(p1, "LET", LAMBDA p2 :
    Then(parse_let_statement(p2), LAMBDA p3 :
    ExpectPeek(p3, "SEMICOLON", LAMBDA p4 :
    Then(parser_next_token(p4), LAMBDA p5 :
    Then(parse_expression(p5, P_LOWEST), LAMBDA p6 :
    ExpectPeek(p6, "SEMICOLON", LAMBDA p7 :
    Then(parser_next_token(p7), LAMBDA p8 :
    Then(parse_expression(p8, P_LOWEST), LAMBDA p9 :
    ExpectPeek(p9, "RPAREN", LAMBDA p10 :
    ExpectPeek(p10, "LBRACE", LAMBDA p11 :
    Then(parse_block_statement(p11), LAMBDA p12 :
    Ret(p12, ForStatement(p3.ret, p6.ret, p9.ret, p12.ret))))))))))))))

\* Parser.__parse_import_statement
parse_import_statement(p) ==
    ExpectPeek(p, "STRING", LAMBDA p1 :
    Then(SkipSemicolon(p1), LAMBDA p2 :
    Ret(p2, ImportStatement(p1.current_token.literal))))

\* Parser.__parse_statement
parse_statement(p) ==
    IF p.current_token.type = "IDENT" /\ peek_token_is_assignment(p)
    THEN Then(parse_assignment_statement(p), SkipSemicolon)
    ELSE CASE p.current_token.type = "LET" -> Then(parse_let_statement(p), SkipSemicolon)
           [] p.current_token.type = "FN" -> parse_function_statement(p)
           [] p.current_token.type = "RETURN" -> parse_return_statement(p)
           [] p.current_token.type = "WHILE" -> parse_while_statement(p)
           [] p.current_token.type = "BREAK" -> parse_break_statement(p)
           [] p.current_token.type = "CONTINUE" -> parse_continue_statement(p)
           [] p.current_token.type = "FOR" -> parse_for_statement(p)
           [] p.current_token.type = "IMPORT" -> parse_import_statement(p)
           [] OTHER -> parse_expression_statement(p)

\* Parser.__init__
NewParser(l) ==
    Then(parser_next_token([NoParser EXCEPT !.lexer = l, !.pc = "parse_program"]),
         parser_next_token)

\* An iteration that leaves out the token after a statement that recorded an error
parse_program_step_skipping(p) ==
    Then(parse_statement(p), LAMBDA p1 :
    Then(parser_next_token(p1), LAMBDA p2 :
    Then(IF p1.errors # p.errors THEN parser_next_token(p2) ELSE p2, LAMBDA p3 :
    [p3 EXCEPT !.program = IF p1.ret.type = "None" THEN @ ELSE Append(@, p1.ret)])))

\* An iteration without the __next_token of line 153
parse_program_step_in_place(p) ==
    Then(parse_statement(p), LAMBDA p1 :
    [p1 EXCEPT !.program = IF p1.ret.type = "None" THEN @ ELSE Append(@, p1.ret)])

\* Parser.parse_program, one iteration of the loop of lines 149-153
parse_program_step(p) ==
    Then(parse_statement(p), LAMBDA p1 :
    Then(parser_next_token(p1), LAMBDA p2 :
    [p2 EXCEPT !.program = IF p1.ret.type = "None" THEN @ ELSE Append(@, p1.ret)]))

\* Parser.parse_program, line 155
parse_program_return(p) == [Ret(p, Program(p.program)) EXCEPT !.pc = "returned"]

\* Parser.parse_program, lines 146-155
RECURSIVE parse_program(_)
parse_program(p) ==
    IF ~Ok(p) THEN p
    ELSE IF p.current_token.type = "EOF" THEN parse_program_return(p)
    ELSE parse_program(parse_program_step(p))

(***************************************************************************)
(* The lexer as a state machine: a client calls next_token repeatedly.     *)
(***************************************************************************)
EofCalls == Cardinality({i \in 1..Len(tokens) : tokens[i].tok.type = "EOF"})

LexInit ==
    /\ \E source \in SeqsUpTo(LexAlphabet, MaxLen) : lexer = NewLexer(source)
    /\ tokens = <<>>
    /\ lexExc = "none"
    /\ compiler = NewCompiler
    /\ stack = <<>>
    /\ fs = [p \in FsPaths |-> NoFile]
    /\ menu = "none"
    /\ nstmts = 0
    /\ parser = NoParser
    /\ main = NoMain

\* One call of next_token.  The entry kept for it names the token and the text
\* between the first character after the skipped whitespace and the lexer's
\* position on return.
LexNextToken ==
    /\ lexExc = "none"
    /\ EofCalls <= MaxEofCalls
    /\ LET r == next_token(lexer)
           start == skip_whitespace(lexer).position
       IN  /\ lexer' = r.lx
           /\ lexExc' = r.exc
           /\ tokens' = IF r.exc = "none"
                        THEN Append(tokens, [tok |-> r.tok,
                                             lexeme |-> Slice(lexer.source, start, r.lx.position)])
                        ELSE tokens
    /\ UNCHANGED <<genVars, parseVars, driverVars>>

LexNext == LexNextToken

SpecLex == LexInit /\ [][LexNext]_vars

\* The lexer given words: the keywords, the alternate keywords, the names of the
\* types of the generator's type_map, and other identifiers, with a space
\* between two words
LexWords ==
    { <<"l", "e", "t">>, <<"f", "n">>, <<"r", "e", "t", "u", "r", "n">>, <<"i", "f">>,
      <<"e", "l", "s", "e">>, <<"t", "r", "u", "e">>, <<"f", "a", "l", "s", "e">>,
      <<"l", "i", "t">>, <<"b", "e">>, <<"r", "n">>, <<"b", "r", "u", "h">>,
      <<"p", "a", "u", "s", "e">>, <<"s", "n", "e", "k">>, <<"s", "u", "s">>,
      <<"i", "m", "p", "o", "s", "t", "e", "r">>, <<"i", "n", "t">>,
      <<"f", "l", "o", "a", "t">>, <<"b", "o", "o", "l">>, <<"s", "t", "r">>,
      <<"v", "o", "i", "d">>, <<"x">>, <<"i", "n">>,
      <<"i", "n", "t", "e", "g", "e", "r">>, <<"w", "h", "i", "l", "e">> }

RECURSIVE Spaced(_)
Spaced(ws) ==
    IF ws = <<>> THEN <<>>
    ELSE IF Len(ws) = 1 THEN ws[1]
    ELSE ws[1] \o <<" ">> \o Spaced(Tail(ws))

WordsInit ==
    /\ \E ws \in SeqsUpTo(LexWords, MaxWords) : lexer = NewLexer(Spaced(ws))
    /\ tokens = <<>>
    /\ lexExc = "none"
    /\ compiler = NewCompiler
    /\ stack = <<>>
    /\ fs = [p \in FsPaths |-> NoFile]
    /\ menu = "none"
    /\ nstmts = 0
    /\ parser = NoParser
    /\ main = NoMain

SpecWords == WordsInit /\ [][LexNext]_vars

(***************************************************************************)
(* The code generator as a state machine: main.py calls                    *)
(* Compiler.compile(program) once.  The statements of the program are      *)
(* taken from a menu; one step lowers a statement up to the point where    *)
(* the visit method returns or enters a nested block, or finishes the      *)
(* visit method whose nested block has been lowered.                       *)
(***************************************************************************)
Int0 == IntegerLiteral(0)
Int1 == IntegerLiteral(1)
Float1 == FloatLiteral(1, <<"5">>)
X == IdentifierLiteral("x")
Y == IdentifierLiteral("y")
CallOf(name) == CallExpression(IdentifierLiteral(name), <<>>)

GenMenu ==
    { LetStatement("x", "int", Int1),
      LetStatement("x", "float", Float1),
      LetStatement("y", "int", X),
      AssignStatement("x", "=", Int1),
      AssignStatement("y", "+=", Int1),
      FunctionStatement("f", <<>>, "int", AnyBlock),
      FunctionStatement("g", <<FunctionParameter("x", "int")>>, "int", AnyBlock),
      ReturnStatement(Int1),
      ReturnStatement(Y),
      ExpressionStatement(CallOf("f")),
      ExpressionStatement(PostfixExpression(X, "++")),
      IfStatement(BooleanLiteral(TRUE), AnyBlock, NoneNode),
      IfStatement(InfixExpression(X, "<", Int1), AnyBlock, AnyBlock),
      WhileStatement(BooleanLiteral(TRUE), AnyBlock),
      ForStatement(LetStatement("y", "int", Int0), InfixExpression(Y, "<", Int1),
                   PostfixExpression(Y, "++"), AnyBlock),
      BreakStatement,
      ContinueStatement }

\* The imported modules: a library, another library, and a module that imports itself
LibProgram ==
    Program(<<FunctionStatement("f", <<>>, "int", BlockStatement(<<ReturnStatement(Int1)>>))>>)
OtherProgram ==
    Program(<<FunctionStatement("g", <<>>, "int", BlockStatement(<<ReturnStatement(Int0)>>))>>)
SelfImportProgram == Program(<<ImportStatement(StrLit(<<"m">>))>>)
EmptyProgram == Program(<<>>)

ImportMenu ==
    {ImportStatement(StrLit(raw)) : raw \in RawNames}
        \cup {ImportStatement(NoneLit), FunctionStatement("g", <<>>, "int", AnyBlock)}

\* The statements the body of the function main is made of when the lowered
\* program is run
Int5 == IntegerLiteral(5)
I == IdentifierLiteral("i")
J == IdentifierLiteral("j")

PostfixMenu ==
    { LetStatement("x", "int", Int5),
      LetStatement("x", "float", Float1),
      LetStatement("y", "int", PostfixExpression(X, "++")),
      LetStatement("y", "int", PostfixExpression(X, "--")),
      ExpressionStatement(PostfixExpression(X, "++")),
      ExpressionStatement(PostfixExpression(Y, "--")),
      ReturnStatement(X),
      ReturnStatement(Y) }

AssignMenu ==
    { LetStatement("x", "int", Int5),
      LetStatement("x", "float", Float1),
      ReturnStatement(X) }
        \cup {AssignStatement("x", operator, value) :
                  operator \in {"+=", "-=", "*=", "/=", "%="},
                  value \in {IntegerLiteral(2), Float1}}

LoopMenu ==
    { LetStatement("x", "int", Int5),
      WhileStatement(InfixExpression(X, "<", Int5), AnyBlock),
      ForStatement(LetStatement("i", "int", Int0), InfixExpression(I, "<", Int5),
                   PostfixExpression(I, "++"), AnyBlock),
      ForStatement(LetStatement("x", "int", Int0), BooleanLiteral(TRUE),
                   PostfixExpression(X, "--"), AnyBlock),
      IfStatement(BooleanLiteral(TRUE), AnyBlock, NoneNode),
      BreakStatement,
      ContinueStatement,
      ExpressionStatement(PostfixExpression(X, "++")),
      ReturnStatement(X) }

InfixOperators == {"+", "-", "*", "/", "%", "^", "<", "<=", ">", ">=", "==", "!="}
InfixMenu ==
    {LetStatement("x", "int", Int5), LetStatement("x", "float", Float1)}
        \cup {ExpressionStatement(InfixExpression(X, op, IntegerLiteral(2))) : op \in InfixOperators}
        \cup {ExpressionStatement(InfixExpression(Float1, op, X)) : op \in InfixOperators}

RunMenus == {"postfix", "assign", "loop", "infix"}
RunMenu(m) ==
    CASE m = "postfix" -> PostfixMenu
      [] m = "assign" -> AssignMenu
      [] m = "loop" -> LoopMenu
      [] m = "infix" -> InfixMenu
      [] OTHER -> {}

Menu ==
    CASE menu = "gen" -> GenMenu
      [] menu = "import" -> ImportMenu
      [] OTHER -> RunMenu(menu)
Limit ==
    CASE menu = "gen" -> MaxStmts
      [] menu = "import" -> MaxImports
      [] menu = "infix" -> MaxInfix
      [] OTHER -> MaxBody

\* The files of module m: tests/m.lime and m.lime
TestsM == <<"tests/", "m", ".lime">>
LocalM == <<"m", ".lime">>
Files(testsM, localM) ==
    [p \in FsPaths |-> IF p = TestsM THEN testsM ELSE IF p = LocalM THEN localM ELSE NoFile]

FileSystems ==
    { Files(NoFile, NoFile),
      Files(File(LibProgram), File(OtherProgram)),
      Files(NoFile, File(LibProgram)),
      Files(NoFile, File(EmptyProgram)),
      Files(UnreadableFile, File(LibProgram)),
      Files(BrokenFile(LibProgram), NoFile),
      Files(NoFile, File(SelfImportProgram)) }

LexIdle ==
    /\ lexer = NewLexer(<<>>)
    /\ tokens = <<>>
    /\ lexExc = "none"
    /\ parser = NoParser
    /\ main = NoMain

\* main.py: compiler = Compiler(); compiler.compile(program)
StartCompile == <<[pc |-> "program"], BlockFrame(AnyProgram)>>

GenInit ==
    /\ LexIdle
    /\ compiler = NewCompiler
    /\ stack = StartCompile
    /\ fs = Files(NoFile, NoFile)
    /\ menu = "gen"
    /\ nstmts = 0

ImportInit ==
    /\ LexIdle
    /\ compiler = NewCompiler
    /\ stack = StartCompile
    /\ fs \in FileSystems
    /\ menu = "import"
    /\ nstmts = 0

Top == stack[Len(stack)]
Caller == stack[Len(stack) - 1]
\* compile is running the loop over the statements of a block
InBlock == Ok(compiler) /\ stack # <<>> /\ Top.pc = "block"
\* the loop of the block has no statement left
AtEnd(pc) ==
    /\ InBlock
    /\ Top.any \/ Top.statements = <<>>
    /\ Caller.pc = pc

\* The statements of one type that the loop may take next
Offered(type) ==
    IF ~InBlock THEN {}
    ELSE IF Top.any THEN (IF nstmts < Limit THEN {node \in Menu : node.type = type} ELSE {})
    ELSE IF Top.statements # <<>> /\ Head(Top.statements).type = type THEN {Head(Top.statements)}
    ELSE {}

Consumed == IF Top.any THEN stack ELSE [stack EXCEPT ![Len(stack)].statements = Tail(@)]
ImportDepth == Cardinality({i \in 1..Len(stack) : stack[i].pc = "import"})

\* self.compile(node) for the next statement of the block; an exception leaves
\* every call in progress
Visit(node) ==
    LET r == compile(compiler, node, fs, ImportDepth)
    IN  /\ compiler' = r.c
        /\ stack' = IF Ok(r.c) THEN Consumed \o r.frames ELSE stack
        /\ nstmts' = IF Top.any THEN nstmts + 1 ELSE nstmts
        /\ UNCHANGED <<fs, menu, lexVars, parseVars, driverVars>>

\* the block is lowered: the visit method that called compile for it goes on
Resume(r) ==
    /\ compiler' = r.c
    /\ stack' = IF Ok(r.c) THEN SubSeq(stack, 1, Len(stack) - 2) \o r.frames ELSE stack
    /\ UNCHANGED <<nstmts, fs, menu, lexVars, parseVars, driverVars>>

VisitLetStatement == \E node \in Offered("LetStatement") : Visit(node)
VisitAssignStatement == \E node \in Offered("AssignStatement") : Visit(node)
VisitReturnStatement == \E node \in Offered("ReturnStatement") : Visit(node)
VisitExpressionStatement == \E node \in Offered("ExpressionStatement") : Visit(node)
VisitBreakStatement == \E node \in Offered("BreakStatement") : Visit(node)
VisitContinueStatement == \E node \in Offered("ContinueStatement") : Visit(node)
VisitFunctionStatement == \E node \in Offered("FunctionStatement") : Visit(node)
VisitIfStatement == \E node \in Offered("IfStatement") : Visit(node)
VisitWhileStatement == \E node \in Offered("WhileStatement") : Visit(node)
VisitForStatement == \E node \in Offered("ForStatement") : Visit(node)
VisitImportStatement == \E node \in Offered("ImportStatement") : Visit(node)

FunctionStatementEnd == AtEnd("function") /\ Resume(Done(function_statement_end(compiler, Caller)))
IfThenEnd == AtEnd("if_then") /\ Resume(Done(if_then_end(compiler, Caller)))
IfElseTrueEnd == AtEnd("if_else_true") /\ Resume(if_else_true_end(compiler, Caller))
IfElseOtherwiseEnd == AtEnd("if_else_otherwise") /\ Resume(Done(if_else_otherwise_end(compiler, Caller)))
WhileStatementEnd == AtEnd("while") /\ Resume(Done(while_statement_end(compiler, Caller)))
ForStatementEnd == AtEnd("for") /\ Resume(Done(for_statement_end(compiler, Caller)))
ImportStatementEnd == AtEnd("import") /\ Resume(Done(import_statement_end(compiler, Caller)))
\* Compiler.compile(program) returns to main.py
ProgramEnd == AtEnd("program") /\ Resume(Done(compiler))

GenNext ==
    \/ VisitLetStatement
    \/ VisitAssignStatement
    \/ VisitReturnStatement
    \/ VisitExpressionStatement
    \/ VisitBreakStatement
    \/ VisitContinueStatement
    \/ VisitFunctionStatement
    \/ VisitIfStatement
    \/ VisitWhileStatement
    \/ VisitForStatement
    \/ FunctionStatementEnd
    \/ IfThenEnd
    \/ IfElseTrueEnd
    \/ IfElseOtherwiseEnd
    \/ WhileStatementEnd
    \/ ForStatementEnd
    \/ ProgramEnd

ImportNext ==
    \/ VisitImportStatement
    \/ ImportStatementEnd
    \/ VisitFunctionStatement
    \/ VisitReturnStatement
    \/ FunctionStatementEnd
    \/ ProgramEnd

SpecGen == GenInit /\ [][GenNext]_vars

SpecImport == ImportInit /\ [][ImportNext]_vars

(***************************************************************************)
(* The parser as a state machine: main.py constructs Parser(Lexer(source)) *)
(* and calls parse_program; one step is one iteration of the loop of       *)
(* parse_program.  The source is a concatenation of pieces of program      *)
(* text.                                                                   *)
(***************************************************************************)
ParseChunks ==
    { <<"1", ".", ".">>,
      <<"1", ".", "2", ".", "3">>,
      <<"x">>,
      <<" ">>,
      <<";">>,
      <<"+">>,
      <<"(">>,
      <<"x", "=">>,
      <<"x", " ", "b", "e", " ">>,
      <<"l", "e", "t", " ", "x", ":", "i", "n", "t", "=">>,
      <<"r", "e", "t", "u", "r", "n", " ">>,
      <<"f", "n", " ", "f", "(", "a", ":">>,
      <<"f", "n", " ", "f", "(", "a", ":", "i", "n", "t", ",">>,
      <<"i", "f", " ", "x", "{">>,
      <<")", "-", ">", "i", "n", "t", "{">> }

RECURSIVE Concat(_)
Concat(chunks) == IF chunks = <<>> THEN <<>> ELSE Head(chunks) \o Concat(Tail(chunks))

ParseSources == {Concat(chunks) : chunks \in SeqsUpTo(ParseChunks, MaxChunks)}

ParseInit ==
    /\ \E source \in ParseSources : lexer = NewLexer(source)
    /\ tokens = <<>>
    /\ lexExc = "none"
    /\ compiler = NewCompiler
    /\ stack = <<>>
    /\ fs = [p \in FsPaths |-> NoFile]
    /\ menu = "none"
    /\ nstmts = 0
    /\ parser = NoParser
    /\ main = NoMain

\* main.py: p = Parser(lexer=l)
ConstructParser ==
    /\ parser.pc = "none"
    /\ parser' = NewParser(lexer)
    /\ lexer' = parser'.lexer
    /\ UNCHANGED <<tokens, lexExc, genVars, driverVars>>

\* main.py: program = p.parse_program(), an iteration of its loop
ParseProgramStep ==
    /\ parser.pc = "parse_program"
    /\ Ok(parser)
    /\ parser.current_token.type # "EOF"
    /\ parser' = parse_program_step(parser)
    /\ lexer' = parser'.lexer
    /\ UNCHANGED <<tokens, lexExc, genVars, driverVars>>

\* main.py: program = p.parse_program(), the loop has met EOF
ParseProgramReturn ==
    /\ parser.pc = "parse_program"
    /\ Ok(parser)
    /\ parser.current_token.type = "EOF"
    /\ parser' = parse_program_return(parser)
    /\ UNCHANGED <<lexer, tokens, lexExc, genVars, driverVars>>

ParseNext ==
    \/ ConstructParser
    \/ ParseProgramStep
    \/ ParseProgramReturn

SpecParse == ParseInit /\ [][ParseNext]_vars

\* The parser given sources of expression statements: identifiers made of x,
\* operators of three levels of the ladder, and the semicolon
ExprAlphabet == {"x", "+", "-", "*", "<", ";"}

ExprInit ==
    /\ \E source \in SeqsUpTo(ExprAlphabet, MaxExpr) : lexer = NewLexer(source)
    /\ tokens = <<>>
    /\ lexExc = "none"
    /\ compiler = NewCompiler
    /\ stack = <<>>
    /\ fs = [p \in FsPaths |-> NoFile]
    /\ menu = "none"
    /\ nstmts = 0
    /\ parser = NoParser
    /\ main = NoMain

SpecExpr == ExprInit /\ [][ParseNext]_vars

(***************************************************************************)
(* main.py as a state machine: the source is lexed and parsed, the program *)
(* is lowered, the module is verified and the function main is run.  The   *)
(* parser holds names, operators and types as the literals of tokens (the  *)
(* sequence of their characters); the compiler model holds them as model   *)
(* strings.  Spelling relates the two for the words the sources use.       *)
(***************************************************************************)
Spelling ==
    { <<<<"x">>, "x">>,
      <<<<"y">>, "y">>,
      <<<<"s">>, "s">>,
      <<<<"i">>, "i">>,
      <<<<"a">>, "a">>,
      <<<<"f">>, "f">>,
      <<<<"g">>, "g">>,
      <<<<"m", "a", "i", "n">>, "main">>,
      <<<<"i", "n", "t">>, "int">>,
      <<<<"f", "l", "o", "a", "t">>, "float">>,
      <<<<"+">>, "+">>,
      <<<<"-">>, "-">>,
      <<<<"*">>, "*">>,
      <<<<"/">>, "/">>,
      <<<<"%">>, "%">>,
      <<<<"^">>, "^">>,
      <<<<"<">>, "<">>,
      <<<<"<", "=">>, "<=">>,
      <<<<">">>, ">">>,
      <<<<">", "=">>, ">=">>,
      <<<<"=", "=">>, "==">>,
      <<<<"!", "=">>, "!=">>,
      <<<<"=">>, "=">>,
      <<<<"b", "e">>, "be">>,
      <<<<"!">>, "!">> }

DriverChunks ==
    { <<"f", "n", " ", "m", "a", "i", "n", "(", ")", "-", ">", "i", "n", "t", "{", "r", "e", "t", "u", "r", "n", " ", "1", "+", "2", ";", "}">>,
      <<"f", "n", " ", "f", "(", ")", "-", ">", "i", "n", "t", "{", "r", "e", "t", "u", "r", "n", " ", "0", ";", "}">>,
      <<"f", "n", " ", "m", "a", "i", "n", "(", ")", "-", ">", "i", "n", "t", "{", "l", "e", "t", " ", "x", ":", "i", "n", "t", "=", "f", "(", ")", ";", "i", "f", " ", "x", "<", "1", "{", "x", "=", "x", "+", "1", ";", "}", "r", "e", "t", "u", "r", "n", " ", "x", ";", "}">>,
      <<"f", "n", " ", "m", "a", "i", "n", "(", ")", "-", ">", "i", "n", "t", "{", "l", "e", "t", " ", "y", ":", "i", "n", "t", "=", "2", ";", "i", "f", " ", "y", ">", "1", "{", "r", "e", "t", "u", "r", "n", " ", "y", ";", "}", "e", "l", "s", "e", "{", "y", "=", "0", ";", "}", "r", "e", "t", "u", "r", "n", " ", "y", "*", "2", ";", "}">>,
      <<"f", "n", " ", "g", "(", "a", ":", "i", "n", "t", ")", "-", ">", "i", "n", "t", "{", "y", "=", "a", ";", "r", "e", "t", "u", "r", "n", " ", "a", ";", "}">>,
      <<"x", "=", "1", ";">>,
      <<"l", "e", "t", " ", "x", ":", "i", "n", "t", "=", "1", ";">>,
      <<"r", "e", "t", "u", "r", "n", " ", "1">>,
      <<"f", "(", ")", ";">> }

Str(lit) == (CHOOSE w \in Spelling : w[1] = lit.s)[2]

\* The program the parser returns, as the node the compiler is given
RECURSIVE AstOf(_)
AstOfAll(nodes) == [k \in 1..Len(nodes) |-> AstOf(nodes[k])]
AstOf(node) ==
    CASE node.type = "IdentifierLiteral" -> IdentifierLiteral(Str(node.value))
      [] node.type = "InfixExpression" ->
            InfixExpression(AstOf(node.left_node), Str(node.operator), AstOf(node.right_node))
      [] node.type = "PrefixExpression" ->
            PrefixExpression(Str(node.operator), AstOf(node.right_node))
      [] node.type = "PostfixExpression" ->
            PostfixExpression(AstOf(node.left_node), Str(node.operator))
      [] node.type = "CallExpression" ->
            CallExpression(AstOf(node.function), AstOfAll(node.arguments))
      [] node.type = "LetStatement" ->
            LetStatement(Str(node.name.value), Str(node.value_type), AstOf(node.value))
      [] node.type = "AssignStatement" ->
            AssignStatement(Str(node.ident.value), Str(node.operator), AstOf(node.right_value))
      [] node.type = "FunctionStatement" ->
            FunctionStatement(Str(node.name.value),
                              [k \in 1..Len(node.parameters) |->
                                  FunctionParameter(Str(node.parameters[k].name),
                                                    Str(node.parameters[k].value_type))],
                              Str(node.return_type), AstOf(node.body))
      [] node.type = "ReturnStatement" -> ReturnStatement(AstOf(node.return_value))
      [] node.type = "ExpressionStatement" -> ExpressionStatement(AstOf(node.expr))
      [] node.type = "IfStatement" ->
            IfStatement(AstOf(node.condition), AstOf(node.consequence), AstOf(node.alternative))
      [] node.type = "BlockStatement" -> BlockStatement(AstOfAll(node.statements))
      [] node.type = "Program" -> Program(AstOfAll(node.statements))
      [] OTHER -> node

\* Scenario 3 of the specification:
\* fn main()->int{ let s:int=0; for(let i:int=0; i<10; i=i+1){ s=s+i; } return s; }
Scenario3 ==
    <<"f", "n", " ", "m", "a", "i", "n", "(", ")", "-", ">", "i", "n", "t", "{", " ", "l", "e",
      "t", " ", "s", ":", "i", "n", "t", "=", "0", ";", " ", "f", "o", "r", "(", "l", "e", "t",
      " ", "i", ":", "i", "n", "t", "=", "0", ";", " ", "i", "<", "1", "0", ";", " ", "i", "=",
      "i", "+", "1", ")", "{", " ", "s", "=", "s", "+", "i", ";", " ", "}", " ", "r", "e", "t",
      "u", "r", "n", " ", "s", ";", " ", "}">>

DriverSources ==
    {Scenario3} \cup {Concat(chunks) : chunks \in SeqsUpTo(DriverChunks, MaxUnits)}

DriverInit ==
    /\ \E source \in DriverSources : lexer = NewLexer(source)
    /\ tokens = <<>>
    /\ lexExc = "none"
    /\ compiler = NewCompiler
    /\ stack = <<>>
    /\ fs = [p \in FsPaths |-> NoFile]
    /\ menu = "none"
    /\ nstmts = 0
    /\ parser = NoParser
    /\ \E run_code \in BOOLEAN : main = [NoMain EXCEPT !.pc = "parse", !.run_code = run_code]

\* exit(status), or the end of the script
Exit(m, status) == [m EXCEPT !.pc = "exit", !.from = m.pc, !.status = status]

\* A driver that starts the generator whatever the parser has reported
after_parse_unchecked(m, p) == [m EXCEPT !.pc = "compile"]

\* main.py lines 66-85: the parse errors are reported, or the generator is started
after_parse(m, p) ==
    IF Len(p.errors) > 0 THEN Exit(m, 1) ELSE [m EXCEPT !.pc = "compile"]

\* main.py lines 89-108: the compile errors are reported, or the module goes on
\* to verification if the code is to be run
after_compile(m, c) ==
    IF Len(c.errors) > 0 THEN Exit(m, 1)
    ELSE IF m.run_code THEN [m EXCEPT !.pc = "verify"]
    ELSE Exit(m, 0)

\* llvm.parse_assembly(str(module)) and verify(): every block ends with a
\* terminator, and a ret returns a value of the function's return type
Verifies(c) ==
    \A b \in 1..Len(c.blocks) :
        /\ c.blocks[b].terminated
        /\ \A k \in 1..Len(c.blocks[b].instrs) :
              c.blocks[b].instrs[k].op = "ret" =>
                  c.blocks[b].instrs[k].args[1].t = GlobalNamed(c, c.blocks[b].func).ret

\* main.py lines 110-119
after_verify(m, c) == IF Verifies(c) THEN [m EXCEPT !.pc = "run"] ELSE Exit(m, 1)

\* A process killed by SIGSEGV
Crashed == 139

\* main.py lines 63-85
MainParsed ==
    /\ main.pc = "parse"
    /\ parser.pc = "returned"
    /\ main' = after_parse(main, parser)
    /\ IF main'.pc = "compile"
       THEN /\ compiler' = NewCompiler
            /\ stack' = <<[pc |-> "program"], BlockFrame(AstOf(parser.ret))>>
       ELSE UNCHANGED <<compiler, stack>>
    /\ UNCHANGED <<fs, menu, nstmts, lexVars, parseVars>>

\* main.py lines 85-108: Compiler.compile has returned
MainCompiled ==
    /\ main.pc = "compile"
    /\ stack = <<>>
    /\ Ok(compiler)
    /\ main' = after_compile(main, compiler)
    /\ UNCHANGED <<genVars, lexVars, parseVars>>

\* main.py lines 110-119
MainVerified ==
    /\ main.pc = "verify"
    /\ main' = after_verify(main, compiler)
    /\ UNCHANGED <<genVars, lexVars, parseVars>>

\* main.py lines 121-142: the address of main is 0 if the module has no such
\* function, and the call of it kills the process; a run that leaves the defined
\* behaviour of the IR may end either way
MainRun ==
    /\ main.pc = "run"
    /\ IF ~HasBody(compiler, "main") THEN main' = Exit(main, Crashed)
       ELSE LET run == RunMain(compiler)
            IN  CASE run.outcome = "returned" ->
                        main' = [Exit(main, 0) EXCEPT !.result = run.result]
                  [] run.outcome = "undefined" ->
                        \E status \in {0, Crashed} :
                            main' = [Exit(main, status) EXCEPT !.result = NoWord]
                  [] OTHER -> FALSE
    /\ UNCHANGED <<genVars, lexVars, parseVars>>

\* An exception that nothing catches ends the interpreter with status 1
MainUncaughtException ==
    /\ \/ main.pc = "parse" /\ ~Ok(parser)
       \/ main.pc = "compile" /\ ~Ok(compiler)
    /\ main' = Exit(main, 1)
    /\ UNCHANGED <<genVars, lexVars, parseVars>>

DriverNext ==
    \/ ConstructParser
    \/ ParseProgramStep
    \/ ParseProgramReturn
    \/ MainParsed
    \/ VisitLetStatement
    \/ VisitAssignStatement
    \/ VisitReturnStatement
    \/ VisitExpressionStatement
    \/ VisitFunctionStatement
    \/ FunctionStatementEnd
    \/ IfThenEnd
    \/ IfElseTrueEnd
    \/ IfElseOtherwiseEnd
    \/ ProgramEnd
    \/ MainCompiled
    \/ MainVerified
    \/ MainRun
    \/ MainUncaughtException

SpecDriver == DriverInit /\ [][DriverNext]_vars

(***************************************************************************)
(* The generator and the run of its output: main.py from Compiler() on,    *)
(* for a program that is one function main.  The body of main is made of   *)
(* the statements of a menu, or is one of the bodies below.                *)
(***************************************************************************)
MainFunction(body) == Program(<<FunctionStatement("main", <<>>, "int", body)>>)

\* let i:int=5; let j:int=i++; return j*10+i;
IncrBody ==
    BlockStatement(<<LetStatement("i", "int", Int5),
                     LetStatement("j", "int", PostfixExpression(I, "++")),
                     ReturnStatement(InfixExpression(InfixExpression(J, "*", IntegerLiteral(10)),
                                                     "+", I))>>)
\* let i:int=5; let j:int=i--; return j*10+i;
DecrBody ==
    BlockStatement(<<LetStatement("i", "int", Int5),
                     LetStatement("j", "int", PostfixExpression(I, "--")),
                     ReturnStatement(InfixExpression(InfixExpression(J, "*", IntegerLiteral(10)),
                                                     "+", I))>>)

S == IdentifierLiteral("s")
\* s = s*10 + i + 1;
AppendDigit ==
    AssignStatement("s", "=", InfixExpression(InfixExpression(InfixExpression(S, "*", IntegerLiteral(10)),
                                                              "+", I), "+", Int1))
SkipTwo ==
    IfStatement(InfixExpression(I, "==", IntegerLiteral(2)), BlockStatement(<<ContinueStatement>>),
                NoneNode)

\* let s:int=0; for(let i:int=0; i<5; i++){ if i==2 {continue;} s=s*10+i+1; } return s;
ForBody ==
    BlockStatement(<<LetStatement("s", "int", Int0),
                     ForStatement(LetStatement("i", "int", Int0), InfixExpression(I, "<", Int5),
                                  PostfixExpression(I, "++"),
                                  BlockStatement(<<SkipTwo, AppendDigit>>)),
                     ReturnStatement(S)>>)
\* let s:int=0; let i:int=0; while i<4 { i=i+1; if i==2 {continue;} s=s*10+i+1; } return s;
WhileBody ==
    BlockStatement(<<LetStatement("s", "int", Int0),
                     LetStatement("i", "int", Int0),
                     WhileStatement(InfixExpression(I, "<", IntegerLiteral(4)),
                                    BlockStatement(<<AssignStatement("i", "=",
                                                                     InfixExpression(I, "+", Int1)),
                                                     SkipTwo, AppendDigit>>)),
                     ReturnStatement(S)>>)

RunBodies == {"incr", "decr", "for", "while"}
RunBody(m) ==
    CASE m = "incr" -> IncrBody
      [] m = "decr" -> DecrBody
      [] m = "for" -> ForBody
      [] m = "while" -> WhileBody
      [] OTHER -> AnyBlock

RunInit ==
    /\ lexer = NewLexer(<<>>)
    /\ tokens = <<>>
    /\ lexExc = "none"
    /\ parser = NoParser
    /\ main = [NoMain EXCEPT !.pc = "compile", !.run_code = TRUE]
    /\ compiler = NewCompiler
    /\ \E m \in RunMenus \cup RunBodies :
          /\ menu = m
          /\ stack = <<[pc |-> "program"], BlockFrame(MainFunction(RunBody(m)))>>
    /\ fs = [p \in FsPaths |-> NoFile]
    /\ nstmts = 0

RunNext ==
    \/ VisitLetStatement
    \/ VisitAssignStatement
    \/ VisitReturnStatement
    \/ VisitExpressionStatement
    \/ VisitBreakStatement
    \/ VisitContinueStatement
    \/ VisitFunctionStatement
    \/ VisitIfStatement
    \/ VisitWhileStatement
    \/ VisitForStatement
    \/ FunctionStatementEnd
    \/ IfThenEnd
    \/ WhileStatementEnd
    \/ ForStatementEnd
    \/ ProgramEnd
    \/ MainCompiled
    \/ MainVerified
    \/ MainRun
    \/ MainUncaughtException

SpecRun == RunInit /\ [][RunNext]_vars

(***************************************************************************)
(* Claims about the code generator.                                        *)
(***************************************************************************)
\* The environments on the parent chain of e
RECURSIVE Chain(_, _)
Chain(envs, e) == IF e = 0 THEN {} ELSE {e} \cup Chain(envs, envs[e].parent)

\* The names that resolve now but do not resolve from the scope previous_env
BoundInside(previous_env) ==
    {n \in EnvNames : lookup(compiler, n).bound /\ ~resolve(compiler.envs, previous_env, n).bound}

\* C1: scope discipline.  When the lowering of a function or of a for-statement
\* finishes (its visit method returns), no name that was bound only in its
\* child scope resolves by lookup in the current environment (the function's
\* own name is bound in the enclosing scope as well).
C1_ScopeDiscipline ==
    [][ /\ (FunctionStatementEnd /\ Ok(compiler')) =>
              \A n \in BoundInside(Caller.previous_env) \ {Caller.name} :
                  ~lookup(compiler', n).bound
        /\ (ForStatementEnd /\ Ok(compiler')) =>
              \A n \in BoundInside(Caller.previous_env) : ~lookup(compiler', n).bound ]_vars

\* C1's case: a function with a parameter x and a for-statement with the
\* initializer y have been lowered; their scopes are discarded and neither
\* name resolves.
C1_Witness ==
    /\ Ok(compiler)
    /\ \E e1, e2 \in 1..Len(compiler.envs) :
           /\ e1 # e2
           /\ {e1, e2} \cap Chain(compiler.envs, compiler.env) = {}
           /\ compiler.envs[e1].records["x"].bound
           /\ compiler.envs[e2].records["y"].bound
    /\ ~lookup(compiler, "x").bound
    /\ ~lookup(compiler, "y").bound

\* The loops being lowered, outermost first, and the targets they give
LoopFrames == SelectSeq(stack, LAMBDA f : f.pc \in {"while", "for"})
EndOf(f) == IF f.pc = "while" THEN f.while_loop_end ELSE f.for_loop_end
StepOf(f) == IF f.pc = "while" THEN f.while_loop_condition ELSE f.for_loop_increment
\* The terminator of the block the builder is in (in the state after a step)
LastInstr(c) == Last(c.blocks[c.builder].instrs)

\* C2: the loop-target stacks.  The two stacks always have equal depth; while no
\* exception propagates they hold exactly the end blocks and the step (for) or
\* condition (while) blocks of the loops being lowered, so that the depth after
\* a function body or an inner loop is the depth before it; a break lowers to a
\* branch to the end block of the innermost loop and a continue to a branch to
\* its step or condition block.
C2_LoopTargetStack ==
    /\ [](Len(compiler.breakpoints) = Len(compiler.continues))
    /\ [](Ok(compiler) =>
             /\ compiler.breakpoints = [i \in 1..Len(LoopFrames) |-> EndOf(LoopFrames[i])]
             /\ compiler.continues = [i \in 1..Len(LoopFrames) |-> StepOf(LoopFrames[i])])
    /\ [][ /\ (VisitBreakStatement /\ LoopFrames # <<>> /\ Ok(compiler')) =>
                 /\ LastInstr(compiler').op = "br"
                 /\ LastInstr(compiler').targets = <<EndOf(Last(LoopFrames))>>
           /\ (VisitContinueStatement /\ LoopFrames # <<>> /\ Ok(compiler')) =>
                 /\ LastInstr(compiler').op = "br"
                 /\ LastInstr(compiler').targets = <<StepOf(Last(LoopFrames))>> ]_vars

\* C2's case: inside a while loop, after an inner for loop has been lowered
\* completely, a break has been lowered to a branch to the end of the while loop.
C2_Witness ==
    /\ Ok(compiler)
    /\ Len(LoopFrames) = 1
    /\ LoopFrames[1].pc = "while"
    /\ compiler.counter = 2
    /\ Len(compiler.breakpoints) = 1
    /\ compiler.builder # 0
    /\ compiler.blocks[compiler.builder].terminated
    /\ LastInstr(compiler).targets = <<LoopFrames[1].while_loop_end>>
    /\ compiler.blocks[compiler.builder].label[1] = "for_loop_end"

\* C3: idempotent imports.  An import of a module that is already in the
\* parsed-module table returns early: no lowering of the module's program is
\* in progress for it.
C3_IdempotentImports ==
    \A i \in 1..Len(stack) : stack[i].pc = "import" => ~stack[i].already_imported

\* A statement whose expression reads an identifier, or calls a function name,
\* that does not resolve
ReadsUnresolved(node) ==
    \/ /\ node.type = "ReturnStatement"
       /\ node.return_value.type = "IdentifierLiteral"
       /\ ~lookup(compiler, node.return_value.value).bound
    \/ /\ node.type = "ExpressionStatement"
       /\ node.expr.type = "CallExpression"
       /\ node.expr.function.value # "printf"
       /\ ~lookup(compiler, node.expr.function.value).bound

\* C4: the code generator never raises.  Lowering an expression that reads an
\* identifier, or calls a function name, that does not resolve appends a compile
\* error and returns.
C4_GeneratorNeverRaises ==
    [][ \A node \in Offered("ReturnStatement") \cup Offered("ExpressionStatement") :
            (ReadsUnresolved(node) /\ Visit(node)) =>
                /\ Ok(compiler')
                /\ Len(compiler'.errors) = Len(compiler.errors) + 1 ]_vars

\* C5: lowering an AssignStatement whose identifier does not resolve appends
\* exactly one compile error, which holds the identifier's name, emits no
\* instruction and leaves the environment unchanged.
C5_AssignUndeclared ==
    [][ \A node \in Offered("AssignStatement") :
            (~lookup(compiler, node.ident.value).bound /\ Visit(node)) =>
                /\ Ok(compiler')
                /\ Len(compiler'.errors) = Len(compiler.errors) + 1
                /\ SubSeq(compiler'.errors, 1, Len(compiler.errors)) = compiler.errors
                /\ Last(compiler'.errors).name = node.ident.value
                /\ compiler'.blocks = compiler.blocks
                /\ compiler'.module = compiler.module
                /\ compiler'.envs = compiler.envs
                /\ compiler'.env = compiler.env ]_vars

\* C5's case: inside a function, where instructions can be emitted, the
\* compound assignment y += 1 to the undeclared y has been lowered.
C5_Witness ==
    /\ Ok(compiler)
    /\ compiler.builder # 0
    /\ \E i \in 1..Len(compiler.errors) :
           compiler.errors[i] = CompileError("AssignUndeclared", "y", <<>>)

\* C6: lowering a break or a continue outside every loop is reported as a
\* compile error; no branch is emitted and lowering continues.
C6_BreakOutsideLoop ==
    [][ \A node \in Offered("BreakStatement") \cup Offered("ContinueStatement") :
            (compiler.breakpoints = <<>> /\ compiler.continues = <<>> /\ Visit(node)) =>
                /\ Ok(compiler')
                /\ Len(compiler'.errors) = Len(compiler.errors) + 1
                /\ compiler'.blocks = compiler.blocks ]_vars

\* The candidate files of a module, and the first of them that exists
TestsPath(module_name) == <<"tests/">> \o module_name \o <<".lime">>
LocalPath(module_name) == module_name \o <<".lime">>
NotOnDisk(module_name) == ~fs[TestsPath(module_name)].exists /\ ~fs[LocalPath(module_name)].exists
FirstOnDisk(module_name) ==
    IF fs[TestsPath(module_name)].exists THEN fs[TestsPath(module_name)]
    ELSE fs[LocalPath(module_name)]
Imported(node) == module_name_of(node.module_name.value.s)
NotCached(node) == compiler.global_parsed_pallets[Imported(node)] = NoneNode

\* C7: importing a module none of whose candidate paths exists appends one
\* compile error that names the module and lists tests/<name>.lime,
\* ./<name>.lime and <name>.lime in that order; nothing is cached and nothing is
\* lowered.  When a candidate exists, the first one in that order is the file
\* that is read.
C7_ImportNotFound ==
    [][ \A node \in {n \in Offered("ImportStatement") : n.module_name.value.k = "str"} :
            /\ (NotCached(node) /\ NotOnDisk(Imported(node)) /\ Visit(node)) =>
                  /\ Ok(compiler')
                  /\ compiler'.errors =
                        Append(compiler.errors,
                               CompileError("CannotFindModule", Imported(node),
                                            << <<"tests/">> \o Imported(node) \o <<".lime">>,
                                               <<"./">> \o Imported(node) \o <<".lime">>,
                                               Imported(node) \o <<".lime">> >>))
                  /\ compiler'.global_parsed_pallets = compiler.global_parsed_pallets
                  /\ compiler'.module = compiler.module
                  /\ compiler'.blocks = compiler.blocks
                  /\ compiler'.envs = compiler.envs
                  /\ stack' = Consumed
            /\ (/\ NotCached(node) /\ ~NotOnDisk(Imported(node))
                /\ FirstOnDisk(Imported(node)).readable
                /\ FirstOnDisk(Imported(node)).errors = <<>>
                /\ Visit(node) /\ Ok(compiler')) =>
                  compiler'.global_parsed_pallets[Imported(node)]
                      = FirstOnDisk(Imported(node)).program ]_vars

\* C7's case: the import of the missing module n has been reported, and the
\* import of m has read tests/m.lime although m.lime exists as well.
C7_Witness ==
    /\ Ok(compiler)
    /\ \E i \in 1..Len(compiler.errors) :
           /\ compiler.errors[i].kind = "CannotFindModule"
           /\ compiler.errors[i].name = <<"n">>
    /\ fs[TestsM].exists /\ fs[LocalM].exists
    /\ fs[TestsM].program # fs[LocalM].program
    /\ compiler.global_parsed_pallets[<<"m">>] = fs[TestsM].program

(***************************************************************************)
(* Claims about the lexer.                                                 *)
(***************************************************************************)
TokenTypes == {tokens[i].tok.type : i \in 1..Len(tokens)}

\* The lexer has returned EOF: the whole source was scanned.
LexDone == "EOF" \in TokenTypes

\* No exception escaped and no ILLEGAL token was returned.
WellFormed == lexExc = "none" /\ "ILLEGAL" \notin TokenTypes

RECURSIVE StripWhitespace(_)
StripWhitespace(s) ==
    IF s = <<>> THEN <<>>
    ELSE IF s[1] \in Whitespace THEN StripWhitespace(Tail(s))
    ELSE <<s[1]>> \o StripWhitespace(Tail(s))

RECURSIVE ConcatLiterals(_)
ConcatLiterals(ts) ==
    IF ts = <<>> THEN <<>> ELSE LiteralText(ts[1].tok.literal) \o ConcatLiterals(Tail(ts))

\* A number written as Python prints its value: no leading zero, and for a
\* float a fractional part that is "0" or does not end in '0'.
CanonicalInt(s) == s # <<>> /\ (Len(s) = 1 \/ s[1] # "0")

CanonicalFloat(s) ==
    LET d == IndexOfDot(s)
        frac == SubSeq(s, d + 1, Len(s))
    IN  /\ CanonicalInt(SubSeq(s, 1, d - 1))
        /\ frac # <<>>
        /\ (frac = <<"0">> \/ frac[Len(frac)] # "0")

CanonicalNumbers ==
    \A i \in 1..Len(tokens) :
        /\ tokens[i].tok.type = "INT" => CanonicalInt(tokens[i].lexeme)
        /\ tokens[i].tok.type = "FLOAT" => CanonicalFloat(tokens[i].lexeme)

\* C8: the lexer never throws: every call of next_token returns a token, and a
\* character no case recognizes comes back as an ILLEGAL token whose literal is
\* that character.
C8_LexerNeverThrows ==
    /\ lexExc = "none"
    /\ \A i \in 1..Len(tokens) :
           (tokens[i].tok.type = "ILLEGAL" /\ ~is_digit(tokens[i].tok.literal.s[1]))
               => tokens[i].tok.literal = StrLit(tokens[i].lexeme)

RECURSIVE LexAll(_)
LexAll(l) ==
    With(next_token(l), LAMBDA r :
         IF r.exc # "none" \/ r.tok.type = "EOF" THEN <<>>
         ELSE <<[tok |-> r.tok, start |-> skip_whitespace(l).position]>> \o LexAll(r.lx))

\* The end of the longest run of digits and '.' that starts at source[i]
RECURSIVE RunEnd(_, _)
RunEnd(source, i) ==
    IF i <= Len(source) /\ (is_digit(source[i]) \/ source[i] = ".")
    THEN RunEnd(source, i + 1) ELSE i

\* The token that starts at the position start (counted from 0) is a number
\* literal: it starts with a digit; and it contains two or more '.'
MultiDot(source, start) ==
    /\ start < Len(source)
    /\ is_digit(source[start + 1])
    /\ Cardinality({k \in (start + 1)..(RunEnd(source, start + 1) - 1) : source[k] = "."}) >= 2

MultiDotTokens(toks, source) == {i \in 1..Len(toks) : MultiDot(source, toks[i].start)}

\* C9: a number literal that contains two or more '.' characters lexes as an
\* ILLEGAL token, and when parse_program returns for a source that contains
\* one, the parser's error list is not empty.
C9_TwoDotsIllegal ==
    With(LexAll(NewLexer(lexer.source)), LAMBDA toks :
         /\ \A i \in MultiDotTokens(toks, lexer.source) : toks[i].tok.type = "ILLEGAL"
         /\ (MultiDotTokens(toks, lexer.source) # {} /\ parser.pc = "returned")
                => parser.errors # <<>>)

\* C9's case: parse_program has returned for a source with such a literal; the
\* literal was met where an expression is parsed, and a statement was parsed
\* and appended all the same.
C9_Witness ==
    /\ parser.pc = "returned"
    /\ MultiDotTokens(LexAll(NewLexer(lexer.source)), lexer.source) # {}
    /\ \E i \in 1..Len(parser.errors) :
           parser.errors[i] = <<"No prefix parse function for", "ILLEGAL">>
    /\ parser.program # <<>>

(***************************************************************************)
(* Claims about main.py.                                                   *)
(***************************************************************************)
\* C11: the generator is never invoked when the parser has recorded an error, and
\* the verification and the run of the module are never started when the
\* generator has recorded an error; in both cases main.py exits with status 1.
C11_DriverOrdering ==
    /\ parser.errors # <<>> =>
          /\ main.pc \in {"parse", "exit"}
          /\ stack = <<>> /\ compiler = NewCompiler
          /\ main.pc = "exit" => main.from = "parse" /\ main.status = 1
    /\ compiler.errors # <<>> =>
          /\ main.pc \in {"compile", "exit"}
          /\ main.pc = "exit" => main.from = "compile" /\ main.status = 1

C11_Witness ==
    /\ main.pc = "exit" /\ main.from = "compile" /\ main.status = 1
    /\ parser.errors = <<>>
    /\ compiler.errors # <<>>

\* C12: Scenario 3 parses with no parse error, lowers with no compile error, and
\* the run of it returns 45.
C12_Scenario3 ==
    lexer.source = Scenario3 /\ main.run_code /\ main.pc = "exit" =>
        /\ parser.errors = <<>>
        /\ compiler.errors = <<>>
        /\ main.from = "run" /\ main.status = 0 /\ main.result = Word(45)

(***************************************************************************)
(* Claims about the code the generator emits, settled by running it.       *)
(***************************************************************************)
\* The instructions a step has appended to the block the builder was in
Appended == Len(compiler'.blocks[compiler.builder].instrs) - Len(compiler.blocks[compiler.builder].instrs)

\* n instructions of straight-line code
RECURSIVE Steps(_, _, _)
Steps(c, st, n) == IF n = 0 THEN st ELSE Steps(c, ExecuteInstr(c, st), n - 1)

\* The stack slots allocated so far
Allocas(c) ==
    UNION {{c.blocks[b].instrs[k].id :
                k \in {k \in 1..Len(c.blocks[b].instrs) : c.blocks[b].instrs[k].op = "alloca"}} :
           b \in 1..Len(c.blocks)}

\* The activation after the appended instructions, run with the word w in the slot
AfterAppended(slot, w) ==
    Last(Steps(compiler',
               [frames |-> <<[b |-> compiler.builder,
                              i |-> Len(compiler.blocks[compiler.builder].instrs) + 1,
                              regs |-> [id \in 1..compiler'.ninstr |->
                                           IF id \in Allocas(compiler) THEN Word(id) ELSE NoWord],
                              mem |-> [id \in 1..compiler'.ninstr |->
                                          IF id = slot.n THEN w ELSE NoWord],
                              args |-> <<>>]>>,
                steps |-> 0, outcome |-> "running", result |-> NoWord],
               Appended).frames)

SampleValues == {-1, 0, 5}

PostfixIn(node) ==
    IF node.type = "LetStatement" THEN node.value
    ELSE IF node.type = "ExpressionStatement" THEN node.expr
    ELSE NoneNode
Delta(operator) == IF operator = "++" THEN 1 ELSE -1

\* C13: x++ (x--) on a bound integer variable yields the value x held before, and
\* afterwards the slot of x holds that value plus one (minus one): with i = 5,
\* let j:int = i++ gives j = 5 and i = 6.
C13_PostIncrement ==
    [][ /\ \A node \in Offered("LetStatement") \cup Offered("ExpressionStatement") :
              LET e == PostfixIn(node)
                  x == lookup(compiler, e.left_node.value)
              IN  (/\ e.type = "PostfixExpression"
                   /\ x.bound /\ x.ptr.t = PointerTo(Ty("i32"))
                   /\ compiler.builder # 0
                   /\ Visit(node)) =>
                      /\ Ok(compiler')
                      /\ compiler'.errors = compiler.errors
                      /\ \A v \in SampleValues :
                            LET fr == AfterAppended(x.ptr, Word(v))
                            IN  /\ fr.mem[x.ptr.n] = Word(v + Delta(e.operator))
                                /\ IF node.type = "LetStatement"
                                   THEN fr.mem[lookup(compiler', node.name.value).ptr.n] = Word(v)
                                   ELSE Operand(fr, compiler'.val) = Word(v)
        /\ (menu = "incr" /\ main'.pc = "exit") => main'.result = Word(56)
        /\ (menu = "decr" /\ main'.pc = "exit") => main'.result = Word(54) ]_vars

C13_Witness ==
    /\ menu = "incr" /\ main.pc = "exit" /\ main.from = "run"
    /\ main.result = Word(56)

\* The function statements whose lowering is in progress, outermost first
FunctionFrames == {k \in 1..Len(stack) : stack[k].pc = "function"}
Outermost == stack[CHOOSE k \in FunctionFrames : \A k2 \in FunctionFrames : k <= k2]

\* C14: after the lowering of a FunctionStatement the builder position and the
\* current environment are the ones saved before it, on every path: when the
\* body has been lowered, with or without compile errors, and when the lowering
\* of the body fails with an exception.
C14_FunctionRestores ==
    [][ /\ FunctionStatementEnd =>
              /\ compiler'.env = Caller.previous_env
              /\ compiler'.builder = Caller.previous_builder
        /\ (Ok(compiler) /\ ~Ok(compiler') /\ FunctionFrames # {}) =>
              /\ compiler'.env = Outermost.previous_env
              /\ compiler'.builder = Outermost.previous_builder ]_vars

(***************************************************************************)
(* Further claims about the parser.                                        *)
(***************************************************************************)
\* The AssignStatement nodes of a tree
RECURSIVE AssignStatementsIn(_)
AssignStatementsIn(node) ==
    CASE node.type = "AssignStatement" -> {node}
      [] node.type \in {"BlockStatement", "Program"} ->
            UNION {AssignStatementsIn(node.statements[k]) : k \in 1..Len(node.statements)}
      [] node.type \in {"FunctionStatement", "WhileStatement", "ForStatement"} ->
            AssignStatementsIn(node.body)
      [] node.type = "IfStatement" ->
            AssignStatementsIn(node.consequence) \cup AssignStatementsIn(node.alternative)
      [] node.type = "ExpressionStatement" -> AssignStatementsIn(node.expr)
      [] OTHER -> {}

\* The AssignStatement nodes in the statements parse_program has appended
ProducedAssignStatements ==
    UNION {AssignStatementsIn(parser.program[k]) : k \in 1..Len(parser.program)}

AssignmentOperators ==
    {StrLit(<<"=">>), StrLit(<<"+", "=">>), StrLit(<<"-", "=">>), StrLit(<<"*", "=">>),
     StrLit(<<"/", "=">>)}

\* C15: every AssignStatement the parser produces carries an operator in
\* {=, +=, -=, *=, /=}, however the source spells the assignment operator
\* (the keyword be included).
C15_AssignOperators == \A stmt \in ProducedAssignStatements : stmt.operator \in AssignmentOperators

(***************************************************************************)
(* Further claims about the code generator.                                *)
(***************************************************************************)
\* The instructions of the block the builder is in
Code(c) == c.blocks[c.builder].instrs

\* After the initializer (r is the generator when it has been resolved) a new
\* slot is allocated, the value is stored into it and the name is bound to it in
\* the current scope; no other binding changes
LetDefines(name, r) ==
    /\ Len(Code(compiler')) = Len(Code(r)) + 2
    /\ SubSeq(Code(compiler'), 1, Len(Code(r))) = Code(r)
    /\ LET slot == Code(compiler')[Len(Code(r)) + 1]
           st == Code(compiler')[Len(Code(r)) + 2]
       IN  /\ slot.op = "alloca" /\ slot.t = PointerTo(r.typ)
           /\ st.op = "store" /\ st.args = <<r.val, InstrValue(slot.t, slot.id, "alloca")>>
           /\ compiler'.envs =
                 [compiler.envs EXCEPT ![compiler.env].records[name] =
                                           Binding(InstrValue(slot.t, slot.id, "alloca"), r.typ)]
    /\ compiler'.env = compiler.env

\* After the initializer the value is stored into the slot the name is bound
\* to; no slot is allocated and no binding changes
LetRebinds(name, r) ==
    /\ Len(Code(compiler')) = Len(Code(r)) + 1
    /\ SubSeq(Code(compiler'), 1, Len(Code(r))) = Code(r)
    /\ Last(Code(compiler')).op = "store"
    /\ Last(Code(compiler')).args = <<r.val, lookup(compiler, name).ptr>>
    /\ compiler'.envs = compiler.envs
    /\ compiler'.env = compiler.env

\* C16: a let whose name resolves nowhere allocates a slot, stores the value and
\* defines the name in the current scope; if the name resolves with the type
\* of the initializer the value is stored into the existing slot and no binding
\* is added; if it resolves with another type a new slot is allocated and the
\* name is defined in the current scope, every other binding staying as it is.
\* The declared type plays no role.
C16_LetLowering ==
    [][ \A node \in Offered("LetStatement") :
            (compiler.builder # 0 /\ Visit(node) /\ Ok(compiler')) =>
                LET name == node.name.value
                    r == resolve_value(compiler, node.value)
                    b == lookup(compiler, name)
                IN  /\ ~b.bound => LetDefines(name, r)
                    /\ (b.bound /\ b.type = r.typ) => LetRebinds(name, r)
                    /\ (b.bound /\ b.type # r.typ) => LetDefines(name, r)
                    /\ \A t \in TypeNames \cup {"none"} :
                          compile(compiler, [node EXCEPT !.value_type = t], fs, ImportDepth).c
                              = compiler' ]_vars

\* C16's case: x is bound to an int slot in an enclosing scope, and a let of a
\* float in an inner scope has given x a new slot there.
C16_Witness ==
    /\ Ok(compiler)
    /\ compiler.envs[compiler.env].records["x"].bound
    /\ compiler.envs[compiler.env].records["x"].type = Ty("float")
    /\ compiler.envs[compiler.env].parent # 0
    /\ resolve(compiler.envs, compiler.envs[compiler.env].parent, "x").bound
    /\ resolve(compiler.envs, compiler.envs[compiler.env].parent, "x").type = Ty("i32")

\* The value of an instruction
ResultOf(ins) == InstrValue(ins.t, ins.id, ins.op)
\* The instructions a step has appended after those of r
After(r) == SubSeq(Code(compiler'), Len(Code(r)) + 1, Len(Code(compiler')))
Ops(instrs) == [k \in 1..Len(instrs) |-> instrs[k].op]

CompoundOperators == {"+=", "-=", "*=", "/="}
IntegerInstr(operator) ==
    CASE operator = "+=" -> "add" [] operator = "-=" -> "sub"
      [] operator = "*=" -> "mul" [] operator = "/=" -> "sdiv"
FloatInstr(operator) ==
    CASE operator = "+=" -> "fadd" [] operator = "-=" -> "fsub"
      [] operator = "*=" -> "fmul" [] operator = "/=" -> "fdiv"
ValueOfInt(operator, a, b) ==
    CASE operator = "+=" -> a + b [] operator = "-=" -> a - b
      [] operator = "*=" -> a * b [] operator = "/=" -> Quot(a, b)

\* C17: for +=, -=, *=, /= the integer instruction is used exactly when the
\* current value and the right-hand value are both integers; an integer current
\* value is promoted for a float right side, an integer right side is promoted
\* for a float current value, and the floating-point instruction is used; an
\* operator outside {=, +=, -=, *=, /=} records a compile error and nothing is
\* stored.
C17_CompoundAssign ==
    [][ \A node \in Offered("AssignStatement") :
            LET x == lookup(compiler, node.ident.value)
                r == resolve_value(compiler, node.right_value)
                cur == Pointee(x.ptr.t)
                new == After(r)
                op == node.operator
            IN  (x.bound /\ compiler.builder # 0 /\ Ok(r) /\ Visit(node)) =>
                    /\ new # <<>> /\ new[1].op = "load" /\ new[1].args = <<x.ptr>>
                    /\ (op \in CompoundOperators /\ cur = Ty("i32") /\ r.typ = Ty("i32")) =>
                          /\ Ops(new) = <<"load", IntegerInstr(op), "store">>
                          /\ new[2].args = <<ResultOf(new[1]), r.val>>
                          /\ new[3].args = <<ResultOf(new[2]), x.ptr>>
                          /\ r.val.v = "const" =>
                                \A v \in SampleValues :
                                    AfterAppended(x.ptr, Word(v)).mem[x.ptr.n]
                                        = Word(ValueOfInt(op, v, r.val.lit.n))
                    /\ (op \in CompoundOperators /\ cur = Ty("i32") /\ r.typ = Ty("float")) =>
                          /\ Len(new) >= 3
                          /\ SubSeq(Ops(new), 1, 3) = <<"load", "sitofp", FloatInstr(op)>>
                          /\ new[2].args = <<ResultOf(new[1])>>
                          /\ new[3].args = <<ResultOf(new[2]), r.val>>
                    /\ (op \in CompoundOperators /\ cur = Ty("float") /\ r.typ = Ty("i32")) =>
                          /\ Ops(new) = <<"load", "sitofp", FloatInstr(op), "store">>
                          /\ new[2].args = <<r.val>>
                          /\ new[3].args = <<ResultOf(new[1]), ResultOf(new[2])>>
                          /\ new[4].args = <<ResultOf(new[3]), x.ptr>>
                    /\ (op \in CompoundOperators /\ cur = Ty("float") /\ r.typ = Ty("float")) =>
                          /\ Ops(new) = <<"load", FloatInstr(op), "store">>
                          /\ new[2].args = <<ResultOf(new[1]), r.val>>
                          /\ new[3].args = <<ResultOf(new[2]), x.ptr>>
                    /\ op \notin CompoundOperators \cup {"="} =>
                          /\ Ok(compiler')
                          /\ compiler'.errors =
                                Append(compiler.errors, CompileError("UnsupportedAssign", op, <<>>))
                          /\ \A k \in 1..Len(new) : new[k].op # "store" ]_vars

\* C17's case: a float variable has been divided by an integer: the integer was
\* promoted, fdiv was used and the quotient was stored.
C17_Witness ==
    /\ Ok(compiler)
    /\ \E b \in 1..Len(compiler.blocks) : \E k \in 1..Len(compiler.blocks[b].instrs) :
           /\ k + 2 <= Len(compiler.blocks[b].instrs)
           /\ compiler.blocks[b].instrs[k].op = "sitofp"
           /\ compiler.blocks[b].instrs[k + 1].op = "fdiv"
           /\ compiler.blocks[b].instrs[k + 2].op = "store"


\* The terminator of block b of the generator c, and where it leads
Terminator(c, b) == Last(c.blocks[b].instrs)
Jumps(c, b, targets) ==
    /\ c.blocks[b].instrs # <<>>
    /\ Terminator(c, b).op = "br"
    /\ Terminator(c, b).targets = targets
Branches(c, b, targets) ==
    /\ c.blocks[b].instrs # <<>>
    /\ Terminator(c, b).op = "cbr"
    /\ Terminator(c, b).targets = targets
\* The number of instructions op in the code of block b from position k on
OpsFrom(c, b, k, op) ==
    Cardinality({j \in k..Len(c.blocks[b].instrs) : c.blocks[b].instrs[j].op = op})

\* entry -> cond, cond -> body or end, and the builder is in the empty body
WhileEntered ==
    LET n == Len(compiler.blocks)
    IN  /\ Len(compiler'.blocks) = n + 3
        /\ Jumps(compiler', compiler.builder, <<n + 1>>)
        /\ Branches(compiler', n + 1, <<n + 2, n + 3>>)
        /\ compiler'.builder = n + 2
        /\ compiler'.blocks[n + 2].instrs = <<>>
        /\ compiler'.blocks[n + 3].instrs = <<>>
        /\ Top'.pc = "block" /\ Caller'.pc = "while"
        /\ Caller'.while_loop_condition = n + 1
        /\ Caller'.while_loop_end = n + 3
        /\ compiler'.env = compiler.env

\* body -> cond, and the builder is in end
WhileLeft ==
    /\ Jumps(compiler', compiler.builder, <<Caller.while_loop_condition>>)
    /\ compiler'.builder = Caller.while_loop_end
    /\ compiler'.env = compiler.env

\* The initializer is lowered once, in the entry block and in a new scope whose
\* parent is the scope of the loop; entry -> cond, cond -> body or end, the step
\* block is still empty and the builder is in the empty body
ForEntered ==
    LET n == Len(compiler.blocks)
        entry == compiler.builder
    IN  /\ Len(compiler'.blocks) = n + 4
        /\ Len(compiler'.envs) = Len(compiler.envs) + 1
        /\ compiler'.env = Len(compiler'.envs)
        /\ compiler'.envs[compiler'.env].parent = compiler.env
        /\ \A e \in 1..Len(compiler.envs) : compiler'.envs[e] = compiler.envs[e]
        /\ OpsFrom(compiler', entry, Len(compiler.blocks[entry].instrs) + 1, "store") = 1
        /\ \A b \in (n + 1)..(n + 4) : OpsFrom(compiler', b, 1, "store") = 0
        /\ Jumps(compiler', entry, <<n + 1>>)
        /\ Branches(compiler', n + 1, <<n + 2, n + 4>>)
        /\ compiler'.builder = n + 2
        /\ compiler'.blocks[n + 2].instrs = <<>>
        /\ compiler'.blocks[n + 3].instrs = <<>>
        /\ compiler'.blocks[n + 4].instrs = <<>>
        /\ Top'.pc = "block" /\ Caller'.pc = "for"
        /\ Caller'.for_loop_condition = n + 1
        /\ Caller'.for_loop_increment = n + 3
        /\ Caller'.for_loop_end = n + 4
        /\ Caller'.previous_env = compiler.env

\* body -> step, the step block holds the step expression and then step -> cond,
\* the builder is in end and the scope is the one of before the loop
ForLeft ==
    LET step == Caller.for_loop_increment
    IN  /\ Jumps(compiler', compiler.builder, <<step>>)
        /\ Jumps(compiler', step, <<Caller.for_loop_condition>>)
        /\ OpsFrom(compiler', step, 1, "store") = 1
        /\ OpsFrom(compiler', step, 1, "add") + OpsFrom(compiler', step, 1, "sub") = 1
        /\ compiler'.builder = Caller.for_loop_end
        /\ compiler'.blocks[Caller.for_loop_end].instrs = <<>>
        /\ compiler'.env = Caller.previous_env


\* C18: a while loop is lowered to entry -> cond, cond -> body or end, body ->
\* cond; a for loop lowers its initializer once in a new child scope and is
\* lowered to entry -> cond, cond -> body or end, body -> step, step -> cond; the
\* builder is left in end and the for loop restores the scope.  Run, the step of
\* a for loop is evaluated after each execution of the body, after a continue
\* as well, and not before the first test of the condition: the loops of ForBody
\* and WhileBody leave one digit in s for each execution of the body that reaches
\* its last statement.
C18_LoopLowering ==
    [][/\ VisitWhileStatement /\ Ok(compiler') => WhileEntered
       /\ WhileStatementEnd /\ Ok(compiler') => WhileLeft
       /\ VisitForStatement /\ Ok(compiler') => ForEntered
       /\ ForStatementEnd /\ Ok(compiler') => ForLeft
       /\ MainRun /\ menu = "for" => main'.status = 0 /\ main'.result = Word(1245)
       /\ MainRun /\ menu = "while" => main'.status = 0 /\ main'.result = Word(245)]_vars

\* the for loop with a continue in its body has been lowered, verified and run
C18_Witness ==
    /\ menu = "for"
    /\ main.pc = "exit"
    /\ main.result = Word(1245)
    /\ \E b \in 1..Len(compiler.blocks) : compiler.blocks[b].label[1] = "for_loop_increment"


(***************************************************************************)
(* Claims about expressions.  The tree the ladder asks for is computed     *)
(* from the text without the parser: an expression is split at its last    *)
(* binary operator of the lowest level.                                    *)
(***************************************************************************)
\* The text as its tokens: a run of x is one identifier
RECURSIVE Words(_, _)
Words(text, done) ==
    IF text = <<>> THEN done
    ELSE IF Head(text) = "x" /\ done # <<>> /\ Last(done)[1] = "x"
         THEN Words(Tail(text), [done EXCEPT ![Len(done)] = Append(@, "x")])
         ELSE Words(Tail(text), Append(done, <<Head(text)>>))

\* The statements of the text: the words between the semicolons; a semicolon
\* at the end closes the last one
RECURSIVE Statements(_, _, _)
Statements(words, done, current) ==
    IF words = <<>> THEN (IF current = <<>> /\ done # <<>> THEN done ELSE Append(done, current))
    ELSE IF Head(words) = <<";">> THEN Statements(Tail(words), Append(done, current), <<>>)
    ELSE Statements(Tail(words), done, Append(current, Head(words)))

IsOperand(word) == word[1] = "x"
\* The level of a binary operator on the ladder
Level(word) ==
    CASE word = <<"<">> -> P_LESSGREATER
      [] word \in {<<"+">>, <<"-">>} -> P_SUM
      [] word = <<"*">> -> P_PRODUCT
      [] OTHER -> P_LOWEST
\* An operator after an operand is binary; a minus anywhere else is a prefix
BinaryAt(e) == {k \in 2..Len(e) : ~IsOperand(e[k]) /\ IsOperand(e[k - 1])}
\* operand (operator operand)*, where an operand is an identifier after any
\* number of prefix minus signs
IsExpression(e) ==
    /\ e # <<>>
    /\ IsOperand(e[Len(e)])
    /\ \A k \in 1..Len(e) : ~IsOperand(e[k]) /\ k \notin BinaryAt(e) => e[k] = <<"-">>

RECURSIVE Tree(_)
Tree(e) ==
    IF BinaryAt(e) = {}
    THEN IF IsOperand(e[1]) THEN IdentifierLiteral(StrLit(e[1]))
         ELSE PrefixExpression(StrLit(e[1]), Tree(Tail(e)))
    ELSE LET lowest == CHOOSE l \in {Level(e[k]) : k \in BinaryAt(e)} :
                           \A k \in BinaryAt(e) : l <= Level(e[k])
             at == CHOOSE k \in BinaryAt(e) :
                       /\ Level(e[k]) = lowest
                       /\ \A j \in BinaryAt(e) : Level(e[j]) = lowest => j <= k
         IN  InfixExpression(Tree(SubSeq(e, 1, at - 1)), StrLit(e[at]),
                             Tree(SubSeq(e, at + 1, Len(e))))

ExprStatements == Statements(Words(parser.lexer.source, <<>>), <<>>, <<>>)
Parsed == parser.pc = "returned" /\ Ok(parser)

\* C19: in a chain of binary operators the operator of the higher level binds
\* tighter, operators of one level group to the left, a prefix operator binds
\* tighter than any binary operator, and an expression ends at a semicolon: the
\* program parsed from expression statements is the sequence of their trees,
\* with no error.
C19_PrecedenceLadder ==
    Parsed /\ (\A k \in 1..Len(ExprStatements) : IsExpression(ExprStatements[k]))
        => /\ parser.errors = <<>>
           /\ parser.program = [k \in 1..Len(ExprStatements) |->
                                    ExpressionStatement(Tree(ExprStatements[k]))]

\* x+x*x has been parsed: a product after a sum is the right operand of the sum
C19_Witness ==
    /\ Parsed
    /\ parser.lexer.source = <<"x", "+", "x", "*", "x">>
    /\ parser.program =
           <<ExpressionStatement(
               InfixExpression(IdentifierLiteral(StrLit(<<"x">>)), StrLit(<<"+">>),
                               InfixExpression(IdentifierLiteral(StrLit(<<"x">>)), StrLit(<<"*">>),
                                               IdentifierLiteral(StrLit(<<"x">>)))))>>


(***************************************************************************)
(* Further claims about the lexer.                                         *)
(***************************************************************************)
\* The two-character tokens and their kinds
CompoundTokens ==
    (<<"=", "=">> :> "EQ_EQ") @@ (<<"!", "=">> :> "NOT_EQ") @@ (<<"<", "=">> :> "LT_EQ") @@
    (<<">", "=">> :> "GT_EQ") @@ (<<"+", "=">> :> "PLUS_EQ") @@ (<<"-", "=">> :> "MINUS_EQ") @@
    (<<"*", "=">> :> "MUL_EQ") @@ (<<"/", "=">> :> "DIV_EQ") @@ (<<"-", ">">> :> "ARROW") @@
    (<<"+", "+">> :> "PLUS_PLUS") @@ (<<"-", "-">> :> "MINUS_MINUS")

\* C20: a text that begins with ==, !=, <=, >=, +=, -=, *=, /=, ->, ++ or -- gives
\* one token of the compound kind whose text is the two characters.
C20_TwoCharacterTokens ==
    \A pair \in DOMAIN CompoundTokens :
        (/\ tokens # <<>>
         /\ Len(lexer.source) >= 2
         /\ SubSeq(lexer.source, 1, 2) = pair)
            => /\ tokens[1].tok.type = CompoundTokens[pair]
               /\ tokens[1].lexeme = pair


\* The names of the types, as the claim and Compiler.type_map list them
TypeWords ==
    {<<"i", "n", "t">>, <<"f", "l", "o", "a", "t">>, <<"b", "o", "o", "l">>, <<"s", "t", "r">>,
     <<"v", "o", "i", "d">>}

\* C21: a word is looked up in the keywords, then in the alternate keywords,
\* then in the names of the types: each of int, float, bool, str and void gives
\* a token of kind TYPE, and a word of none of the three tables gives IDENT.
C21_IdentifierClassification ==
    \A i \in 1..Len(tokens) :
        tokens[i].tok.type # "EOF" =>
            tokens[i].tok.type =
                IF DictGet(KEYWORDS, tokens[i].lexeme) # None
                THEN DictGet(KEYWORDS, tokens[i].lexeme)
                ELSE IF DictGet(ALT_KEYWORDS, tokens[i].lexeme) # None
                THEN DictGet(ALT_KEYWORDS, tokens[i].lexeme)
                ELSE IF tokens[i].lexeme \in TypeWords THEN "TYPE"
                ELSE "IDENT"


(***************************************************************************)
(* Further claims about the parser's errors.                               *)
(***************************************************************************)
IsPrefixOf(a, b) == Len(a) <= Len(b) /\ SubSeq(b, 1, Len(a)) = a

\* The token types with which __parse_statement calls __parse_expression and
\* finds no prefix handler
StatementTypes == {"LET", "FN", "RETURN", "WHILE", "BREAK", "CONTINUE", "FOR", "IMPORT"}
NoPrefixHandler(tt) == tt \notin prefix_parse_fns \cup StatementTypes \cup {"EOF"}

FirstToken(source) == next_token(NewLexer(source))
\* The text after the first token and the semicolon that may follow it
AfterFirst(source) ==
    LET first == FirstToken(source).lx
        second == next_token(first)
        from == IF second.exc = "none" /\ second.tok.type = "SEMICOLON"
                THEN second.lx.position ELSE first.position
    IN  SubSeq(source, from + 1, Len(source))

\* parse_program on the text
ProgramOf(source) == parse_program(NewParser(NewLexer(source)))

\* C22: when the current token has no prefix handler an error is appended and
\* the parse goes on to EOF: the statements after the faulty token are parsed
\* and appended as they are when the text starts with them, and the error
\* list only grows.
C22_ErrorRecovery ==
    /\ [][IsPrefixOf(parser.errors, parser'.errors)]_vars
    /\ [][(/\ ParseProgramStep
           /\ NoPrefixHandler(parser.current_token.type))
             => /\ Ok(parser')
                /\ parser'.errors = Append(parser.errors, <<"No prefix parse function for",
                                                            parser.current_token.type>>)
                /\ parser'.program = Append(parser.program, ExpressionStatement(NoneNode))]_vars
    /\ []((/\ parser.pc = "returned"
           /\ FirstToken(parser.lexer.source).exc = "none"
           /\ NoPrefixHandler(FirstToken(parser.lexer.source).tok.type))
            => LET rest == ProgramOf(AfterFirst(parser.lexer.source))
               IN  /\ parser.program = <<ExpressionStatement(NoneNode)>> \o rest.program
                   /\ Tail(parser.errors) = rest.errors)

\* parse_program has returned for a text that starts with a token without a
\* prefix handler: the let statement after it has been parsed and appended
C22_Witness ==
    /\ parser.pc = "returned"
    /\ Len(parser.errors) = 1
    /\ parser.errors[1][1] = "No prefix parse function for"
    /\ Len(parser.program) = 2
    /\ parser.program[1] = ExpressionStatement(NoneNode)
    /\ parser.program[2].type = "LetStatement"


(***************************************************************************)
(* Claims about the lowering of expressions and of stores.                 *)
(***************************************************************************)
ArithmeticOperators == {"+", "-", "*", "/", "%"}
ComparisonOperators == {"<", "<=", ">", ">=", "==", "!="}
InfixInteger(operator) ==
    CASE operator = "+" -> "add" [] operator = "-" -> "sub" [] operator = "*" -> "mul"
      [] operator = "/" -> "sdiv" [] operator = "%" -> "srem"
InfixFloat(operator) ==
    CASE operator = "+" -> "fadd" [] operator = "-" -> "fsub" [] operator = "*" -> "fmul"
      [] operator = "/" -> "fdiv" [] operator = "%" -> "frem"
SignedComparison(operator) ==
    CASE operator = "<" -> "icmp slt" [] operator = "<=" -> "icmp sle"
      [] operator = ">" -> "icmp sgt" [] operator = ">=" -> "icmp sge"
      [] operator = "==" -> "icmp eq" [] operator = "!=" -> "icmp ne"
OrderedComparison(operator) ==
    CASE operator = "<" -> "fcmp olt" [] operator = "<=" -> "fcmp ole"
      [] operator = ">" -> "fcmp ogt" [] operator = ">=" -> "fcmp oge"
      [] operator = "==" -> "fcmp oeq" [] operator = "!=" -> "fcmp one"

\* One instruction op of type t on the operands l and r has been appended after
\* the code of the operands, and it is the value of the expression, of type type
LoweredTo(l, r, op, t, type) ==
    /\ Ok(compiler')
    /\ Len(After(r)) = 1
    /\ After(r)[1].op = op
    /\ After(r)[1].t = t
    /\ After(r)[1].args = <<l.val, r.val>>
    /\ compiler'.val = ResultOf(After(r)[1])
    /\ compiler'.typ = type
    /\ compiler'.errors = compiler.errors

\* No instruction has been appended after the code of the operands, the value
\* is None and no error has been recorded
NotLowered(r) ==
    /\ Ok(compiler')
    /\ After(r) = <<>>
    /\ compiler'.val = NoneValue
    /\ compiler'.errors = compiler.errors

\* C23: with two operands of type int the operators + - * / % are lowered to add,
\* sub, mul, sdiv, srem of type i32 and < <= > >= == != to a signed comparison
\* of type i1; with two operands of type float to fadd, fsub, fmul, fdiv, frem
\* and an ordered comparison of type i1; for ^ and for an int and a float no
\* instruction is emitted, the value is None and no error is recorded.
C23_InfixLowering ==
    [][ \A node \in Offered("ExpressionStatement") :
            LET op == node.expr.operator
                l == resolve_value(compiler, node.expr.left_node)
                r == resolve_value(l, node.expr.right_node)
                ints == l.typ = Ty("i32") /\ r.typ = Ty("i32")
                floats == l.typ = Ty("float") /\ r.typ = Ty("float")
            IN  (/\ node.expr.type = "InfixExpression"
                 /\ compiler.builder # 0 /\ Ok(l) /\ l.pair /\ Ok(r) /\ r.pair
                 /\ Visit(node))
                  => /\ (ints /\ op \in ArithmeticOperators) =>
                            LoweredTo(l, r, InfixInteger(op), Ty("i32"), Ty("i32"))
                     /\ (ints /\ op \in ComparisonOperators) =>
                            LoweredTo(l, r, SignedComparison(op), Ty("i1"), Ty("i1"))
                     /\ (floats /\ op \in ArithmeticOperators) =>
                            LoweredTo(l, r, InfixFloat(op), Ty("float"), Ty("float"))
                     /\ (floats /\ op \in ComparisonOperators) =>
                            LoweredTo(l, r, OrderedComparison(op), Ty("i1"), Ty("i1"))
                     /\ (op = "^" \/ ~(ints \/ floats)) => NotLowered(r) ]_vars

\* x*2 on two ints, 1.5 < x on two floats and 1.5 + x on a float and an int have
\* been lowered in main: the block holds a mul and no fadd, or an ordered
\* comparison
C23_Witness ==
    /\ menu = "infix"
    /\ Ok(compiler)
    /\ compiler.builder # 0
    /\ compiler.errors = <<>>
    /\ \E k \in 1..Len(Code(compiler)) : Code(compiler)[k].op \in {"mul", "fcmp olt"}
    /\ compiler.val.v = "instr"
    /\ compiler.typ \in {Ty("i32"), Ty("i1")}


(***************************************************************************)
(* Claims about the lines the lexer records.                               *)
(***************************************************************************)
\* The newline characters among the first n characters of the text
NewlinesBefore(source, n) ==
    Cardinality({k \in 1..n : k <= Len(source) /\ source[k] = "\n"})

\* C24: the line of every token is 1 plus the number of newline characters
\* before the token in the text, those inside string literals included.
C24_LineTracking ==
    [][(LexNextToken /\ lexExc' = "none")
          => Last(tokens').tok.line
                = 1 + NewlinesBefore(lexer.source, skip_whitespace(lexer).position)]_vars


(***************************************************************************)
(* Claims about the binding of function names.                             *)
(***************************************************************************)
\* The function whose body is being lowered
Innermost == stack[CHOOSE k \in FunctionFrames : \A k2 \in FunctionFrames : k2 <= k]
FunctionBinding(frame) == Binding(FunctionValue(frame.name), frame.return_type)
\* The functions that are still being lowered after the step
StillLowered == {k \in FunctionFrames : k <= Len(stack') /\ stack'[k] = stack[k]}

\* C25: while the body of f is lowered, f resolves to its function value and
\* return type, bound in the child scope of the function, and a call of f in
\* its body is lowered to a call of that function; the enclosing scope is not
\* changed before the body has been lowered, and then exactly f is bound in it
\* to the same function value and return type, and no parameter.
C25_FunctionNameBinding ==
    /\ [][ \A node \in Offered("FunctionStatement") :
               (Visit(node) /\ Ok(compiler')) =>
                   /\ compiler'.env > Len(compiler.envs)
                   /\ compiler'.envs[compiler'.env].parent = compiler.env
                   /\ compiler'.envs[compiler'.env].records[node.name.value]
                          = Binding(FunctionValue(node.name.value), type_map(node.return_type))
                   /\ \A e \in 1..Len(compiler.envs) : compiler'.envs[e] = compiler.envs[e]
                   /\ Innermost'.name = node.name.value
                   /\ Innermost'.return_type = type_map(node.return_type)
                   /\ Innermost'.previous_env = compiler.env ]_vars
    /\ []((Ok(compiler) /\ FunctionFrames # {})
            => lookup(compiler, Innermost.name) = FunctionBinding(Innermost))
    /\ [][ \A node \in Offered("ExpressionStatement") :
               (/\ FunctionFrames # {}
                /\ node.expr.type = "CallExpression"
                /\ node.expr.function.value = Innermost.name
                /\ node.expr.arguments = <<>>
                /\ GlobalNamed(compiler, Innermost.name).args = <<>>
                /\ Visit(node))
                  => /\ Ok(compiler')
                     /\ LastInstr(compiler').op = "call"
                     /\ LastInstr(compiler').args = <<FunctionValue(Innermost.name)>> ]_vars
    /\ [][ \A k \in StillLowered :
               compiler'.envs[stack[k].previous_env] = compiler.envs[stack[k].previous_env] ]_vars
    /\ [][ (FunctionStatementEnd /\ Ok(compiler')) =>
               /\ compiler'.env = Caller.previous_env
               /\ compiler'.envs[Caller.previous_env] =
                      [compiler.envs[Caller.previous_env] EXCEPT
                          !.records[Caller.name] = FunctionBinding(Caller)] ]_vars

\* g(x:int) has been lowered at the top level: g is bound in the top-level
\* scope and x is not, and the body of f, lowered before, calls f
C25_Witness ==
    /\ Ok(compiler)
    /\ stack # <<>>
    /\ FunctionFrames = {}
    /\ compiler.envs[compiler.env].parent = 0
    /\ compiler.envs[compiler.env].records["g"] = Binding(FunctionValue("g"), Ty("i32"))
    /\ ~compiler.envs[compiler.env].records["x"].bound
    /\ \E b \in 1..Len(compiler.blocks) : \E k \in 1..Len(compiler.blocks[b].instrs) :
           /\ compiler.blocks[b].func = "f"
           /\ compiler.blocks[b].instrs[k].op = "call"
           /\ compiler.blocks[b].instrs[k].args = <<FunctionValue("f")>>


\* The stores among the instructions a step has appended to the block of the builder
NewStores ==
    IF compiler.builder = 0 \/ compiler'.builder # compiler.builder THEN {}
    ELSE {k \in (Len(Code(compiler)) + 1)..Len(Code(compiler')) : Code(compiler')[k].op = "store"}
\* The types recorded in the scopes for the slot ptr
RecordedTypes(c, ptr) ==
    UNION {{c.envs[e].records[n].type :
                n \in {n \in EnvNames : c.envs[e].records[n].bound /\ c.envs[e].records[n].ptr = ptr}} :
           e \in 1..Len(c.envs)}

Terminators == {"br", "cbr", "ret"}

\* C27: in every basic block no instruction follows a terminator, and so no
\* block has two terminators, whatever the statements of the bodies are.
C27_BlockWellFormed ==
    \A b \in 1..Len(compiler.blocks) :
        \A k \in 1..(Len(compiler.blocks[b].instrs) - 1) :
            compiler.blocks[b].instrs[k].op \notin Terminators

(***************************************************************************)
(* Claims about the lowering of imports.                                   *)
(***************************************************************************)
\* the lowerings of module m that are in progress, each inside the one before
Nested(m) ==
    Cardinality({i \in 1..Len(stack) : stack[i].pc = "import" /\ stack[i].module_name = m})

CharsRead(p) == p.lexer.read_position

\* an iteration of the loop of parse_program
LoopIteration ==
    /\ parser.pc = "parse_program"
    /\ parser'.pc = "parse_program"
    /\ parser' # parser

\* the loop of parse_program is about to run another iteration
AtLoopBody == parser.pc = "parse_program" /\ Ok(parser) /\ parser.current_token.type # "EOF"

\* C29: parse_program terminates for every source.  Each iteration of its loop,
\* with the block, expression, parameter and argument loops run inside it,
\* takes at least one token from the lexer; once the lexer has returned EOF to
\* the parser the tokens after it are EOF; an iteration starts only while the
\* lexer is within two characters of the end of the source, so the iterations
\* are at most two more than the characters of the source.
C29_ParserTermination ==
    /\ [][LoopIteration /\ Ok(parser') => CharsRead(parser') > CharsRead(parser)]_vars
    /\ [](parser.pc # "none" /\ Ok(parser) /\ parser.current_token.type = "EOF"
            => parser.peek_token.type = "EOF")
    /\ [](AtLoopBody => CharsRead(parser) <= Len(parser.lexer.source) + 2)

\* parse_program has returned a program with a function whose body met EOF: the
\* parameter loop and the block loop ran, and the lexer was called after EOF
C29_Witness ==
    /\ parser.pc = "returned"
    /\ \E i \in 1..Len(parser.program) : parser.program[i].type = "FunctionStatement"
    /\ CharsRead(parser) > Len(parser.lexer.source) + 2

(***************************************************************************)
(* Claims about blocks the source does not close.                          *)
(***************************************************************************)
\* a statement of the program whose parse entered a block: a function, a loop,
\* or an if, which the parser returns inside an expression statement
HoldsBlock(node) ==
    \/ node.type \in {"FunctionStatement", "WhileStatement", "ForStatement"}
    \/ node.type = "ExpressionStatement" /\ node.expr.type = "IfStatement"

\* parse_program has returned, a block was entered, and the source has no
\* closing brace at all: the tokens reached EOF inside the block
EofInsideBlock ==
    /\ parser.pc = "returned"
    /\ \A k \in 1..Len(parser.lexer.source) : parser.lexer.source[k] # "}"
    /\ \E i \in 1..Len(parser.program) : HoldsBlock(parser.program[i])

\* C30: when the tokens reach EOF inside a block, before its closing brace,
\* the parser's error list is not empty after parse_program.
C30_UnclosedBlockReported == EofInsideBlock => parser.errors # <<>>

=============================================================================
